---- MODULE Spec2Model ----
(***************************************************************************)
(* Model of pytest_minio_mock/plugin.py: the in-memory, versioned          *)
(* object-storage engine (MockMinioObjectVersion, MockMinioObject,         *)
(* MockMinioBucket, MockMinioClient).                                      *)
(*                                                                         *)
(* Python dicts keep insertion order, and the code relies on it           *)
(* (list(self.versions.values())[0], iteration of self.objects.items()),   *)
(* so both dicts are sequences of entries in insertion order.              *)
(***************************************************************************)
EXTENDS Integers, Sequences, FiniteSets, TLC

VARIABLES
    buckets,    \* MockMinioServer._buckets of the server the handles connect to
    clock,      \* number of MockMinioObjectVersion constructions (utcnow() ticks)
    nuuid,      \* number of uuid4() calls made so far
    last,       \* the last client call: its arguments and its outcome
    servers,    \* MockMinioServers.servers: endpoint -> MockMinioServer (its address)
    heap,       \* the MockMinioServer objects created: address -> its _buckets
    clients,    \* the handles made by Minio(endpoint): _base_url and buckets
    resets,     \* number of MockMinioServers.reset() calls made so far
    pending     \* the generator list_objects returned, not yet consumed

\* the registry of servers and the handles connected through it
registry == <<servers, heap, clients, resets>>

vars == <<buckets, clock, nuuid, last, servers, heap, clients, resets, pending>>

----------------------------------------------------------------------------
(* Bounds of the model *)

\* total number of Versions that may be constructed in one behaviour
MaxVersions == 3
\* total number of MockMinioServer objects that may be constructed, and of
\* reset() calls that may be made, in one behaviour
MaxServers == 2

----------------------------------------------------------------------------
(* Values *)

\* minio.versioningconfig.OFF, minio.commonconfig.ENABLED (a TLA+ keyword, hence
\* the spelling), minio.versioningconfig.SUSPENDED
Off == "Off"
Enabled == "Enabled"
Suspended == "Suspended"

\* VersioningConfig(status): status None (-> Off), Enabled or Suspended;
\* every other status is refused by VersioningConfig itself.
VersioningConfigs == {Off, Enabled, Suspended}
\* a config argument that is not a VersioningConfig instance
NotAConfig == "not-a-config"

\* version_id=None (or the empty string): no version id given
NoVersionId == ""
NullVersion == "null"
\* a version id that is neither "null" nor UUID-shaped
MalformedVersionId == "wrong"

\* the endpoint of a valid handle, and an empty endpoint
ValidEndpoint == "http://local.host:9000"
EmptyEndpoint == ""
\* an endpoint that is neither a host name nor a URL
MalformedEndpoint == "not a url"
\* the endpoint of a second server, given as a host name
OtherEndpoint == "play.min.io"
\* validators.hostname(value), validators.url(value) on the endpoints above
validators_hostname(value) == value = OtherEndpoint
validators_url(value) == value = ValidEndpoint
\* the endpoints of the handles that issue calls
Endpoints == {ValidEndpoint}

BucketNames == {"b1"}
ObjectNames == {"k1"}
Contents == {"v1", "v2"}
\* data=b"" of a delete marker
EmptyData == ""

\* str(uuid4()): the n-th token generated; tokens never repeat
uuid4(n) == "uuid-" \o ToString(n)
\* validators.uuid(version_id)
validators_uuid(version_id) ==
    version_id \in {uuid4(n) : n \in 1..(MaxVersions + 2)}

\* the version ids a caller may pass: none, "null", a malformed one, every
\* token issued so far and one token that was never issued
VersionIdInputs ==
    {NoVersionId, NullVersion, MalformedVersionId}
        \cup {uuid4(n) : n \in 1..(nuuid + 1)}

AllVersionIds ==
    {NoVersionId, NullVersion, MalformedVersionId}
        \cup {uuid4(n) : n \in 1..(MaxVersions + 1)}

----------------------------------------------------------------------------
(* Python str: object names, prefixes and start_after are strings; the      *)
(* listing looks at their characters                                        *)

\* the characters of the strings the model uses
Chars(s) ==
    CASE s = "" -> <<>>
      [] s = "k1" -> <<"k", "1">>
      [] s = "a" -> <<"a">>
      [] s = "a/" -> <<"a", "/">>
      [] s = "a/z" -> <<"a", "/", "z">>
      [] s = "a/z/" -> <<"a", "/", "z", "/">>
      [] s = "w" -> <<"w">>

\* ord(c)
Ord(c) ==
    CASE c = "/" -> 47
      [] c = "1" -> 49
      [] c = "a" -> 97
      [] c = "k" -> 107
      [] c = "w" -> 119
      [] c = "z" -> 122

\* s.startswith(p)
StartsWith(s, p) == Len(p) <= Len(s) /\ SubSeq(s, 1, Len(p)) = p

\* s > t
RECURSIVE StrGreater(_, _)
StrGreater(s, t) ==
    IF s = <<>> THEN FALSE
    ELSE IF t = <<>> THEN TRUE
    ELSE IF Head(s) = Head(t) THEN StrGreater(Tail(s), Tail(t))
    ELSE Ord(Head(s)) > Ord(Head(t))

\* s.strip("/")
RECURSIVE Strip(_)
Strip(s) ==
    IF s = <<>> THEN <<>>
    ELSE IF Head(s) = "/" THEN Strip(Tail(s))
    ELSE IF s[Len(s)] = "/" THEN Strip(SubSeq(s, 1, Len(s) - 1))
    ELSE s

\* s.find("/"): the 0-based index of the first "/", -1 if there is none
Find(s) ==
    IF \E i \in DOMAIN s : s[i] = "/"
    THEN (CHOOSE i \in DOMAIN s :
              s[i] = "/" /\ \A j \in 1..(i - 1) : s[j] # "/") - 1
    ELSE -1

----------------------------------------------------------------------------
(* MockMinioObjectVersion *)

MockMinioObjectVersion(data, version_id, is_delete_marker, is_latest, now) ==
    [data |-> data,
     version_id |-> version_id,
     is_delete_marker |-> is_delete_marker,
     last_modified |-> now,
     is_latest |-> is_latest]

----------------------------------------------------------------------------
(* dict helpers: self._versions is a sequence of Versions, keyed by their   *)
(* version_id, in insertion order                                           *)

HasKey(versions, version_id) ==
    \E i \in DOMAIN versions : versions[i].version_id = version_id

KeyIdx(versions, version_id) ==
    CHOOSE i \in DOMAIN versions : versions[i].version_id = version_id

\* d[key] = obj: an existing key keeps its position, a new key is appended
DictSet(versions, version_id, obj) ==
    IF HasKey(versions, version_id)
    THEN [versions EXCEPT ![KeyIdx(versions, version_id)] = obj]
    ELSE Append(versions, obj)

\* del d[key]
DictDel(versions, version_id) ==
    SelectSeq(versions, LAMBDA v : v.version_id # version_id)

----------------------------------------------------------------------------
(* MockMinioObject *)

reset_latest(versions) ==
    IF versions = <<>> THEN <<>>
    ELSE [i \in DOMAIN versions |-> [versions[i] EXCEPT !.is_latest = FALSE]]

\* kind "None": no versions; "obj": versions[idx] is the first Version
\* flagged latest; "RuntimeError": versions but none flagged
get_latest(versions) ==
    IF versions = <<>> THEN [kind |-> "None", idx |-> 0]
    ELSE IF \E i \in DOMAIN versions : versions[i].is_latest
    THEN [kind |-> "obj",
          idx |-> CHOOSE i \in DOMAIN versions :
                      /\ versions[i].is_latest
                      /\ \A j \in 1..(i - 1) : ~versions[j].is_latest]
    ELSE [kind |-> "RuntimeError", idx |-> 0]

\* put_object_version without its reset_latest() call
put_object_version_NoReset(versions, version_id, obj) ==
    DictSet(versions, version_id, [obj EXCEPT !.is_latest = TRUE])

put_object_version(versions, version_id, obj) ==
    DictSet(reset_latest(versions), version_id,
            [obj EXCEPT !.is_latest = TRUE])

\* put_object that ignores the ENABLED status when it picks the version id
PutVersionId_AlwaysNull(status, uuid) == NullVersion

\* put_object: version_id = "null", or str(uuid4()) if the status is ENABLED
PutVersionId(status, uuid) ==
    IF status = Enabled THEN uuid ELSE NullVersion

\* put_object that never empties self._versions
PutKeptVersions_Never(versions, status) == versions

\* put_object that empties self._versions unless the status is ENABLED
PutKeptVersions_UnlessEnabled(versions, status) ==
    IF status = Enabled THEN versions ELSE <<>>

\* put_object: if versioning is OFF, self._versions = {} before the insertion
PutKeptVersions(versions, status) ==
    IF status = Off THEN <<>> ELSE versions

\* MockMinioObject.put_object: the new self._versions
MockMinioObject_put_object(versions, data, status, uuid, now) ==
    LET version_id == PutVersionId(status, uuid)
        obj == MockMinioObjectVersion(data, version_id, FALSE, TRUE, now)
    IN put_object_version(PutKeptVersions(versions, status), version_id, obj)

\* get_object without its delete-marker check
GetVersion_NoMarkerCheck(versions, idx) == [exc |-> "none", idx |-> idx]

\* get_object, once the_object_version = self._versions[version_id] is found:
\* a delete marker is refused, any other Version is returned
GetVersion(versions, idx) ==
    IF versions[idx].is_delete_marker
    THEN [exc |-> "MethodNotAllowed", idx |-> 0]
    ELSE [exc |-> "none", idx |-> idx]

\* MockMinioObject.get_object: exc is the exception raised ("none": the call
\* returns versions[idx])
MockMinioObject_get_object(versions, version_id, status) ==
    IF /\ version_id # NoVersionId
       /\ version_id # NullVersion
       /\ ~validators_uuid(version_id)
    THEN [exc |-> "InvalidVersion", idx |-> 0]
    ELSE IF version_id = NoVersionId /\ versions = <<>>
    THEN [exc |-> "NoSuchKey", idx |-> 0]
    ELSE IF /\ version_id = NoVersionId
            /\ status # Off
            /\ get_latest(versions).kind = "RuntimeError"
    THEN [exc |-> "RuntimeError", idx |-> 0]
    ELSE
      LET resolved ==
              IF version_id # NoVersionId THEN version_id
              ELSE IF status = Off THEN NullVersion
              ELSE versions[get_latest(versions).idx].version_id
      IN IF ~HasKey(versions, resolved)
         THEN [exc |-> "VersionNotFound", idx |-> 0]
         ELSE GetVersion(versions, KeyIdx(versions, resolved))

\* no Object returned
NoStat ==
    [version_id |-> NoVersionId, is_latest |-> "None",
     is_delete_marker |-> FALSE, last_modified |-> 0]

StatOf_KeepNull(v) ==
    [version_id |-> v.version_id,
     is_latest |-> IF v.is_latest THEN "true" ELSE "false",
     is_delete_marker |-> v.is_delete_marker,
     last_modified |-> v.last_modified]

\* stat_object: the Object built from the Version resolved; version_id is
\* None when the Version has the id "null"
StatOf(v) ==
    [version_id |-> IF v.version_id = NullVersion THEN NoVersionId
                    ELSE v.version_id,
     is_latest |-> IF v.is_latest THEN "true" ELSE "false",
     is_delete_marker |-> v.is_delete_marker,
     last_modified |-> v.last_modified]

\* MockMinioObject.stat_object: the exception self.get_object raises and,
\* when there is none, the Object returned
MockMinioObject_stat_object(versions, version_id, status) ==
    LET r == MockMinioObject_get_object(versions, version_id, status)
    IN [exc |-> r.exc,
        stat |-> IF r.exc = "none" THEN StatOf(versions[r.idx]) ELSE NoStat]

\* the sort key of list_versions: (is_delete_marker, -last_modified)
KeyBefore(v, w) ==
    \/ ~v.is_delete_marker /\ w.is_delete_marker
    \/ /\ v.is_delete_marker = w.is_delete_marker
       /\ v.last_modified > w.last_modified

\* sorted() is stable: v goes after the entries whose key is not greater
RECURSIVE SortedInsert(_, _)
SortedInsert(sorted, v) ==
    IF sorted = <<>> THEN <<v>>
    ELSE IF KeyBefore(v, Head(sorted)) THEN <<v>> \o sorted
    ELSE <<Head(sorted)>> \o SortedInsert(Tail(sorted), v)

\* sorted(self.versions.items(), key=...)
RECURSIVE Sorted(_)
Sorted(versions) ==
    IF versions = <<>> THEN <<>>
    ELSE SortedInsert(Sorted(SubSeq(versions, 1, Len(versions) - 1)),
                      versions[Len(versions)])

list_versions_InsertionOrder(versions) == versions

\* MockMinioObject.list_versions
list_versions(versions) == Sorted(versions)

\* the tail of both "version_id given" branches of remove_object, entered
\* after latest_obj = self.get_latest() returned a Version: del, then
\* promote list(self.versions.values())[0] when the latest one was removed
RemoveVersion(versions, version_id) ==
    LET latest_id == versions[get_latest(versions).idx].version_id
        rest == DictDel(versions, version_id)
    IN IF version_id # latest_id
       THEN [versions |-> rest, exc |-> "none", made |-> FALSE]
       ELSE IF rest = <<>>
       THEN [versions |-> rest, exc |-> "IndexError", made |-> FALSE]
       ELSE [versions |-> [rest EXCEPT ![1].is_latest = TRUE],
             exc |-> "none", made |-> FALSE]

\* remove_object that sets the delete-marker flag of the latest Version
\* in mode ENABLED as well
AddDeleteMarker_InPlace(versions, latest_idx, uuid, now) ==
    [versions |-> [versions EXCEPT ![latest_idx].is_delete_marker = TRUE],
     exc |-> "none", made |-> FALSE]

\* remove_object that puts a delete marker even on a delete marker
AddDeleteMarker_Always(versions, latest_idx, uuid, now) ==
    [versions |->
         put_object_version(versions, uuid,
             MockMinioObjectVersion(EmptyData, uuid, TRUE, TRUE, now)),
     exc |-> "none", made |-> TRUE]

\* remove_object, ENABLED, no version id, latest_obj = versions[latest_idx]:
\* nothing to do if it is a delete marker, else a delete marker is put
AddDeleteMarker(versions, latest_idx, uuid, now) ==
    IF versions[latest_idx].is_delete_marker
    THEN [versions |-> versions, exc |-> "none", made |-> FALSE]
    ELSE [versions |->
              put_object_version(versions, uuid,
                  MockMinioObjectVersion(EmptyData, uuid, TRUE, TRUE, now)),
          exc |-> "none", made |-> TRUE]

\* remove_object that marks the first Version instead of the latest one
MarkLatestDeleted_First(versions, latest_idx) ==
    [versions |-> [versions EXCEPT ![1].is_delete_marker = TRUE],
     exc |-> "none", made |-> FALSE]

\* remove_object that also drops the content of the Version it marks
MarkLatestDeleted_DropData(versions, latest_idx) ==
    [versions |-> [versions EXCEPT ![latest_idx].is_delete_marker = TRUE,
                                   ![latest_idx].data = EmptyData],
     exc |-> "none", made |-> FALSE]

\* remove_object, SUSPENDED, no version id, latest_obj = versions[latest_idx]:
\* latest_obj.is_delete_marker = True
MarkLatestDeleted(versions, latest_idx) ==
    [versions |-> [versions EXCEPT ![latest_idx].is_delete_marker = TRUE],
     exc |-> "none", made |-> FALSE]

\* MockMinioObject.remove_object: the new self._versions, the exception
\* raised ("none": the call returns) and whether a Version was constructed
\* (one uuid4() call and one utcnow() tick)
MockMinioObject_remove_object(versions, version_id, status, uuid, now) ==
    LET same(exc) == [versions |-> versions, exc |-> exc, made |-> FALSE]
        latest == get_latest(versions)
    IN
    IF status = Off
    THEN IF version_id # NoVersionId
         THEN [versions |-> DictDel(versions, version_id),
               exc |-> "none", made |-> FALSE]
         ELSE same("RuntimeError")
    ELSE IF status = Enabled
    THEN IF version_id # NoVersionId
         THEN IF ~HasKey(versions, version_id) THEN same("none")
              ELSE IF latest.kind = "RuntimeError" THEN same("RuntimeError")
              ELSE RemoveVersion(versions, version_id)
         ELSE IF latest.kind = "RuntimeError" THEN same("RuntimeError")
              ELSE IF latest.kind = "None" THEN same("AttributeError")
              ELSE AddDeleteMarker(versions, latest.idx, uuid, now)
    ELSE IF status = Suspended
    THEN IF version_id # NoVersionId
         THEN IF latest.kind = "RuntimeError" THEN same("RuntimeError")
              ELSE IF ~HasKey(versions, version_id) THEN same("KeyError")
              ELSE RemoveVersion(versions, version_id)
         ELSE IF latest.kind = "RuntimeError" THEN same("RuntimeError")
              ELSE IF latest.kind = "None" THEN same("AttributeError")
              ELSE MarkLatestDeleted(versions, latest.idx)
    ELSE same("Exception")

----------------------------------------------------------------------------
(* MockMinioBucket: versioning is the status of its VersioningConfig,       *)
(* objects the dict self._objects as a sequence of                          *)
(* [object_name, versions] entries in insertion order                       *)

MockMinioBucket(versioning) == [versioning |-> versioning, objects |-> <<>>]

HasObject(objects, object_name) ==
    \E i \in DOMAIN objects : objects[i].object_name = object_name

ObjectIdx(objects, object_name) ==
    CHOOSE i \in DOMAIN objects : objects[i].object_name = object_name

\* self.objects[object_name]._versions
VersionsOf(bucket, object_name) ==
    bucket.objects[ObjectIdx(bucket.objects, object_name)].versions

\* MockMinioBucket.put_object: the bucket afterwards
MockMinioBucket_put_object(bucket, object_name, data, uuid, now) ==
    LET objects ==
            IF HasObject(bucket.objects, object_name) THEN bucket.objects
            ELSE Append(bucket.objects,
                        [object_name |-> object_name, versions |-> <<>>])
        i == ObjectIdx(objects, object_name)
    IN [bucket EXCEPT !.objects =
            [objects EXCEPT ![i].versions =
                MockMinioObject_put_object(objects[i].versions, data,
                                           bucket.versioning, uuid, now)]]

DelObject_KeepEmpty(objects, object_name) ==
    [i \in DOMAIN objects |->
        IF objects[i].object_name = object_name
        THEN [objects[i] EXCEPT !.versions = <<>>]
        ELSE objects[i]]

\* del self.objects[object_name]
DelObject(objects, object_name) ==
    SelectSeq(objects, LAMBDA o : o.object_name # object_name)

\* a remove_object that drops the object left without Versions in every mode
MockMinioBucket_remove_object_DropEmpty(bucket, object_name, version_id, uuid, now) ==
    IF ~HasObject(bucket.objects, object_name)
    THEN [bucket |-> bucket, exc |-> "none", made |-> FALSE]
    ELSE IF bucket.versioning = Off /\ version_id = NoVersionId
    THEN [bucket |-> [bucket EXCEPT !.objects =
                         DelObject(bucket.objects, object_name)],
          exc |-> "none", made |-> FALSE]
    ELSE
      LET i == ObjectIdx(bucket.objects, object_name)
          r == MockMinioObject_remove_object(bucket.objects[i].versions,
                   version_id, bucket.versioning, uuid, now)
      IN [bucket |-> IF r.versions = <<>>
                     THEN [bucket EXCEPT !.objects =
                              DelObject(bucket.objects, object_name)]
                     ELSE [bucket EXCEPT !.objects[i].versions = r.versions],
          exc |-> r.exc, made |-> r.made]

\* MockMinioBucket.remove_object: the bucket afterwards, the exception raised
\* and whether a Version was constructed
MockMinioBucket_remove_object(bucket, object_name, version_id, uuid, now) ==
    IF ~HasObject(bucket.objects, object_name)
    THEN [bucket |-> bucket, exc |-> "none", made |-> FALSE]
    ELSE IF bucket.versioning = Off /\ version_id = NoVersionId
    THEN [bucket |-> [bucket EXCEPT !.objects =
                         DelObject(bucket.objects, object_name)],
          exc |-> "none", made |-> FALSE]
    ELSE
      LET i == ObjectIdx(bucket.objects, object_name)
          r == MockMinioObject_remove_object(bucket.objects[i].versions,
                   version_id, bucket.versioning, uuid, now)
      IN [bucket |-> [bucket EXCEPT !.objects[i].versions = r.versions],
          exc |-> r.exc, made |-> r.made]

\* MockMinioBucket.get_object: the exception raised and, when there is none,
\* the data of the Version returned
MockMinioBucket_get_object(bucket, object_name, version_id) ==
    IF ~HasObject(bucket.objects, object_name)
    THEN [exc |-> "NoSuchKey", data |-> EmptyData]
    ELSE
      LET versions == VersionsOf(bucket, object_name)
          r == MockMinioObject_get_object(versions, version_id, bucket.versioning)
      IN [exc |-> r.exc,
          data |-> IF r.exc = "none" THEN versions[r.idx].data ELSE EmptyData]

\* MockMinioBucket.stat_object: the exception raised and, when there is none,
\* the Object returned
MockMinioBucket_stat_object(bucket, object_name, version_id) ==
    IF ~HasObject(bucket.objects, object_name)
    THEN [exc |-> "NoSuchKey", stat |-> NoStat]
    ELSE MockMinioObject_stat_object(VersionsOf(bucket, object_name),
                                     version_id, bucket.versioning)

\* Object(bucket_name, object_name=dir_name): a common-prefix entry
DirEntry(dir_name) ==
    [object_name |-> dir_name, is_dir |-> TRUE, version_id |-> NoVersionId,
     is_latest |-> "None", is_delete_marker |-> FALSE, last_modified |-> 0]

\* Object(...) of a Version; version_id and is_latest are None when the
\* versions are not included
ObjectEntry(name, v, include_version) ==
    [object_name |-> name, is_dir |-> FALSE,
     version_id |-> IF include_version THEN v.version_id ELSE NoVersionId,
     is_latest |-> IF ~include_version THEN "None"
                   ELSE IF v.is_latest THEN "true" ELSE "false",
     is_delete_marker |-> v.is_delete_marker,
     last_modified |-> v.last_modified]

\* list_objects, non-recursive: the directory name of object_name under
\* prefix, if its sub path has one
DirName(name, prefix) ==
    LET sub_path == Strip(SubSeq(name, Len(prefix) + 1, Len(name)))
        dir_end_idx == Find(sub_path)
    IN [found |-> dir_end_idx # -1,
        dir_name |-> prefix \o SubSeq(sub_path, 1, dir_end_idx + 1)]

\* list_objects: what one object yields once it is not collapsed, and the
\* exception that ends the iteration
ObjectEntries(name, versions, include_version) ==
    IF include_version
    THEN [entries |->
              [i \in 1..Len(versions) |->
                  ObjectEntry(name, list_versions(versions)[i], TRUE)],
          exc |-> "none"]
    ELSE IF get_latest(versions).kind = "RuntimeError"
    THEN [entries |-> <<>>, exc |-> "RuntimeError"]
    ELSE IF get_latest(versions).kind = "None"
    THEN [entries |-> <<>>, exc |-> "AttributeError"]
    ELSE IF versions[get_latest(versions).idx].is_delete_marker
    THEN [entries |-> <<>>, exc |-> "none"]
    ELSE [entries |->
              <<ObjectEntry(name, versions[get_latest(versions).idx], FALSE)>>,
          exc |-> "none"]

\* the loop of list_objects from the i-th entry of self.objects.items() on,
\* with seen_prefixes = seen: the entries yielded and the exception that
\* ends the iteration ("none": it runs to its end)
RECURSIVE ListObjectsFrom(_, _, _, _, _, _, _)
ListObjectsFrom(objects, i, seen, prefix, recursive, start_after, include_version) ==
    IF i > Len(objects) THEN [entries |-> <<>>, exc |-> "none"]
    ELSE
      LET name == Chars(objects[i].object_name)
          rest(seen2) == ListObjectsFrom(objects, i + 1, seen2, prefix,
                                         recursive, start_after, include_version)
          dir == DirName(name, prefix)
          own == ObjectEntries(name, objects[i].versions, include_version)
      IN IF ~(/\ StartsWith(name, prefix)
              /\ (start_after = <<>> \/ StrGreater(name, start_after)))
         THEN rest(seen)
         ELSE IF ~recursive /\ dir.found
         THEN IF dir.dir_name \in seen THEN rest(seen)
              ELSE [entries |-> <<DirEntry(dir.dir_name)>>
                                   \o rest(seen \cup {dir.dir_name}).entries,
                    exc |-> rest(seen \cup {dir.dir_name}).exc]
         ELSE IF own.exc # "none" THEN own
         ELSE [entries |-> own.entries \o rest(seen).entries,
               exc |-> rest(seen).exc]

\* MockMinioBucket.list_objects, consumed to its end; prefix=None is "" and
\* start_after=None is ""
MockMinioBucket_list_objects(bucket, prefix, recursive, start_after, include_version) ==
    ListObjectsFrom(bucket.objects, 1, {}, Chars(prefix), recursive,
                    Chars(start_after), include_version)

----------------------------------------------------------------------------
(* MockMinioClient: a handle is its endpoint (_base_url); every handle is   *)
(* connected to the one server whose buckets the variable buckets holds     *)

\* MockMinioClient._health_check: the exception raised, "none" if it passes
health_check(endpoint) ==
    IF endpoint = EmptyEndpoint THEN "ValueError"
    ELSE IF ~validators_hostname(endpoint) /\ ~validators_url(endpoint)
    THEN "ValueError"
    ELSE "none"

\* MockMinioClient.bucket_exists, past its health check
bucket_exists(bucket_name) == bucket_name \in DOMAIN buckets

\* the arguments of list_objects at their defaults
NoListArgs ==
    [prefix |-> "", recursive |-> FALSE, start_after |-> "",
     include_version |-> FALSE]

\* the record of a client call and of its outcome; list_args and entries are
\* the arguments and the entries returned when the call is list_objects,
\* stat is the Object returned when it is stat_object, names the bucket names
\* returned when it is list_buckets
Call(op, endpoint, bucket_name, object_name, version_id, data, exc, ret) ==
    [op |-> op, endpoint |-> endpoint, bucket_name |-> bucket_name,
     object_name |-> object_name, version_id |-> version_id, data |-> data,
     exc |-> exc, ret |-> ret, list_args |-> NoListArgs, entries |-> <<>>,
     stat |-> NoStat, names |-> {}]

NoCall == Call("none", "", "", "", "", "", "none", "")

\* no generator is held; a generator holds the bucket and the arguments of
\* the call, at_call records the objects the bucket held when it was made
NoPending ==
    [open |-> FALSE, bucket_name |-> "", list_args |-> NoListArgs,
     at_call |-> <<>>]

Init ==
    /\ buckets = <<>>
    /\ clock = 0
    /\ nuuid = 0
    /\ last = NoCall
    /\ servers = <<>>
    /\ heap = <<>>
    /\ clients = <<>>
    /\ resets = 0
    /\ pending = NoPending

SetBucket_KeepExisting(bs, bucket_name, bucket) ==
    bs @@ (bucket_name :> bucket)

\* self.buckets[bucket_name] = bucket
SetBucket(bs, bucket_name, bucket) == (bucket_name :> bucket) @@ bs

RemoveBucketError_NoEmptyCheck(endpoint, bucket_name) ==
    IF health_check(endpoint) # "none" THEN health_check(endpoint)
    ELSE IF bucket_name \notin DOMAIN buckets THEN "NoSuchBucket"
    ELSE "none"

\* remove_bucket: the exception raised before the bucket is deleted
RemoveBucketError(endpoint, bucket_name) ==
    IF health_check(endpoint) # "none" THEN health_check(endpoint)
    ELSE IF bucket_name \notin DOMAIN buckets THEN "NoSuchBucket"
    ELSE IF buckets[bucket_name].objects # <<>> THEN "BucketNotEmpty"
    ELSE "none"

make_bucket(endpoint, bucket_name) ==
    LET hc == health_check(endpoint) IN
    /\ last' = Call("make_bucket", endpoint, bucket_name, "", "", "", hc, "")
    /\ buckets' = IF hc # "none" THEN buckets
                  ELSE SetBucket(buckets, bucket_name, MockMinioBucket(Off))
    /\ UNCHANGED <<clock, nuuid>>
    /\ UNCHANGED <<registry, pending>>

remove_bucket(endpoint, bucket_name) ==
    LET exc == RemoveBucketError(endpoint, bucket_name) IN
    /\ last' = Call("remove_bucket", endpoint, bucket_name, "", "", "", exc, "")
    /\ buckets' = IF exc # "none" THEN buckets
                  ELSE [b \in DOMAIN buckets \ {bucket_name} |-> buckets[b]]
    /\ UNCHANGED <<clock, nuuid>>
    /\ UNCHANGED <<registry, pending>>

\* a versioning setter that starts the bucket anew with the config
SetVersioning_NewBucket(bucket, config) == MockMinioBucket(config)

\* MockMinioBucket.versioning setter: self._versioning = versioning
SetVersioning(bucket, config) == [bucket EXCEPT !.versioning = config]

set_bucket_versioning(endpoint, bucket_name, config) ==
    LET hc == health_check(endpoint)
        exc == IF hc # "none" THEN hc
               ELSE IF ~bucket_exists(bucket_name) THEN "NoSuchBucket"
               ELSE IF config \notin VersioningConfigs THEN "ValueError"
               ELSE "none"
    IN
    /\ last' = Call("set_bucket_versioning", endpoint, bucket_name, "", "",
                    config, exc, "")
    /\ buckets' = IF exc # "none" THEN buckets
                  ELSE [buckets EXCEPT
                          ![bucket_name] = SetVersioning(@, config)]
    /\ UNCHANGED <<clock, nuuid>>
    /\ UNCHANGED <<registry, pending>>

put_object(endpoint, bucket_name, object_name, data) ==
    LET hc == health_check(endpoint)
        exc == IF hc # "none" THEN hc
               ELSE IF ~bucket_exists(bucket_name) THEN "NoSuchBucket"
               ELSE "none"
    IN
    /\ exc = "none" => clock < MaxVersions
    /\ last' = Call("put_object", endpoint, bucket_name, object_name, "",
                    data, exc, IF exc = "none" THEN "Upload successful" ELSE "")
    /\ IF exc # "none"
       THEN UNCHANGED <<buckets, clock, nuuid>>
       ELSE /\ buckets' = [buckets EXCEPT ![bucket_name] =
                              MockMinioBucket_put_object(@, object_name, data,
                                  uuid4(nuuid + 1), clock + 1)]
            /\ clock' = clock + 1
            /\ nuuid' = IF buckets[bucket_name].versioning = Enabled
                        THEN nuuid + 1 ELSE nuuid
    /\ UNCHANGED <<registry, pending>>

remove_object(endpoint, bucket_name, object_name, version_id) ==
    LET hc == health_check(endpoint)
        r == IF hc # "none"
             THEN [bucket |-> <<>>, exc |-> hc, made |-> FALSE]
             ELSE IF bucket_name \notin DOMAIN buckets
             THEN [bucket |-> <<>>, exc |-> "KeyError", made |-> FALSE]
             ELSE MockMinioBucket_remove_object(buckets[bucket_name],
                      object_name, version_id, uuid4(nuuid + 1), clock + 1)
    IN
    /\ version_id \in VersionIdInputs
    /\ r.made => clock < MaxVersions
    /\ last' = Call("remove_object", endpoint, bucket_name, object_name,
                    version_id, "", r.exc, "")
    /\ buckets' = IF hc # "none" \/ bucket_name \notin DOMAIN buckets
                  THEN buckets
                  ELSE [buckets EXCEPT ![bucket_name] = r.bucket]
    /\ clock' = IF r.made THEN clock + 1 ELSE clock
    /\ nuuid' = IF r.made THEN nuuid + 1 ELSE nuuid
    /\ UNCHANGED <<registry, pending>>

\* MockMinioClient.get_object: the exception raised and, when there is none,
\* the data of the response
GetObjectResult(endpoint, bucket_name, object_name, version_id) ==
    LET hc == health_check(endpoint) IN
    IF hc # "none" THEN [exc |-> hc, data |-> EmptyData]
    ELSE IF bucket_name \notin DOMAIN buckets
    THEN [exc |-> "KeyError", data |-> EmptyData]
    ELSE MockMinioBucket_get_object(buckets[bucket_name],
                                    object_name, version_id)

\* a get_object that takes the object it has read out of the bucket
get_object_Consuming(endpoint, bucket_name, object_name, version_id) ==
    LET r == GetObjectResult(endpoint, bucket_name, object_name, version_id)
    IN
    /\ version_id \in VersionIdInputs
    /\ last' = Call("get_object", endpoint, bucket_name, object_name,
                    version_id, "", r.exc, r.data)
    /\ buckets' = IF r.exc # "none" THEN buckets
                  ELSE [buckets EXCEPT ![bucket_name].objects =
                           DelObject(@, object_name)]
    /\ UNCHANGED <<clock, nuuid>>
    /\ UNCHANGED <<registry, pending>>

get_object(endpoint, bucket_name, object_name, version_id) ==
    LET r == GetObjectResult(endpoint, bucket_name, object_name, version_id)
    IN
    /\ version_id \in VersionIdInputs
    /\ last' = Call("get_object", endpoint, bucket_name, object_name,
                    version_id, "", r.exc, r.data)
    /\ UNCHANGED <<buckets, clock, nuuid>>
    /\ UNCHANGED <<registry, pending>>

\* MockMinioClient.stat_object: the exception raised and, when there is none,
\* the Object returned
StatObjectResult(endpoint, bucket_name, object_name, version_id) ==
    LET hc == health_check(endpoint) IN
    IF hc # "none" THEN [exc |-> hc, stat |-> NoStat]
    ELSE IF bucket_name \notin DOMAIN buckets
    THEN [exc |-> "KeyError", stat |-> NoStat]
    ELSE MockMinioBucket_stat_object(buckets[bucket_name],
                                     object_name, version_id)

stat_object(endpoint, bucket_name, object_name, version_id) ==
    LET r == StatObjectResult(endpoint, bucket_name, object_name, version_id)
    IN
    /\ version_id \in VersionIdInputs
    /\ last' = [Call("stat_object", endpoint, bucket_name, object_name,
                      version_id, "", r.exc, "")
                 EXCEPT !.stat = r.stat]
    /\ UNCHANGED <<buckets, clock, nuuid>>
    /\ UNCHANGED <<registry, pending>>

\* MockMinioClient.get_bucket_versioning: the exception raised and, when
\* there is none, the status of the config returned
GetBucketVersioningResult(endpoint, bucket_name) ==
    LET hc == health_check(endpoint) IN
    IF hc # "none" THEN [exc |-> hc, status |-> ""]
    ELSE IF ~bucket_exists(bucket_name)
    THEN [exc |-> "NoSuchBucket", status |-> ""]
    ELSE [exc |-> "none", status |-> buckets[bucket_name].versioning]

get_bucket_versioning(endpoint, bucket_name) ==
    LET r == GetBucketVersioningResult(endpoint, bucket_name) IN
    /\ last' = Call("get_bucket_versioning", endpoint, bucket_name, "", "", "",
                    r.exc, r.status)
    /\ UNCHANGED <<buckets, clock, nuuid>>
    /\ UNCHANGED <<registry, pending>>

\* MockMinioClient.bucket_exists as a call: the exception raised and, when
\* there is none, the value returned
BucketExistsResult(endpoint, bucket_name) ==
    LET hc == health_check(endpoint) IN
    IF hc # "none" THEN [exc |-> hc, ret |-> ""]
    ELSE [exc |-> "none",
          ret |-> IF bucket_exists(bucket_name) THEN "True" ELSE "False"]

call_bucket_exists(endpoint, bucket_name) ==
    LET r == BucketExistsResult(endpoint, bucket_name) IN
    /\ last' = Call("bucket_exists", endpoint, bucket_name, "", "", "",
                    r.exc, r.ret)
    /\ UNCHANGED <<buckets, clock, nuuid>>
    /\ UNCHANGED <<registry, pending>>

\* MockMinioClient.list_buckets: the exception raised and, when there is
\* none, the names of the Buckets returned
ListBucketsResult(endpoint) ==
    LET hc == health_check(endpoint) IN
    IF hc # "none" THEN [exc |-> hc, names |-> {}]
    ELSE [exc |-> "none", names |-> DOMAIN buckets]

list_buckets(endpoint) ==
    LET r == ListBucketsResult(endpoint) IN
    /\ last' = [Call("list_buckets", endpoint, "", "", "", "", r.exc, "")
                 EXCEPT !.names = r.names]
    /\ UNCHANGED <<buckets, clock, nuuid>>
    /\ UNCHANGED <<registry, pending>>

\* the buckets of the server a handle of this endpoint is connected to: the
\* server of an endpoint that fails the health check never gets a bucket,
\* every call that makes one raises before
ServerBuckets(endpoint) ==
    IF health_check(endpoint) = "none" THEN buckets ELSE <<>>

\* MockMinioClient.list_objects (it makes no health check), consumed to its
\* end
ListObjectsResult(endpoint, bucket_name, prefix, recursive, start_after, include_version) ==
    IF bucket_name \notin DOMAIN ServerBuckets(endpoint)
    THEN [entries |-> <<>>, exc |-> "NoSuchBucket"]
    ELSE MockMinioBucket_list_objects(buckets[bucket_name], prefix, recursive,
                                      start_after, include_version)

list_objects(endpoint, bucket_name, prefix, recursive, start_after, include_version) ==
    LET r == ListObjectsResult(endpoint, bucket_name, prefix, recursive,
                               start_after, include_version)
    IN
    /\ last' = [Call("list_objects", endpoint, bucket_name, "", "", "",
                      r.exc, "")
                 EXCEPT !.list_args =
                            [prefix |-> prefix, recursive |-> recursive,
                             start_after |-> start_after,
                             include_version |-> include_version],
                        !.entries = r.entries]
    /\ UNCHANGED <<buckets, clock, nuuid>>
    /\ UNCHANGED <<registry, pending>>

Next ==
    \/ \E e \in Endpoints, b \in BucketNames : make_bucket(e, b)
    \/ \E e \in Endpoints, b \in BucketNames : remove_bucket(e, b)
    \/ \E e \in Endpoints, b \in BucketNames,
          c \in VersioningConfigs \cup {NotAConfig} :
            set_bucket_versioning(e, b, c)
    \/ \E e \in Endpoints, b \in BucketNames, k \in ObjectNames,
          d \in Contents : put_object(e, b, k, d)
    \/ \E e \in Endpoints, b \in BucketNames, k \in ObjectNames,
          v \in AllVersionIds : remove_object(e, b, k, v)
    \/ \E e \in Endpoints, b \in BucketNames, k \in ObjectNames,
          v \in AllVersionIds : get_object(e, b, k, v)

Spec == Init /\ [][Next]_vars

----------------------------------------------------------------------------
(* The listing of a bucket that holds several objects: the calls of a      *)
(* client that puts and removes objects under path-like names in one       *)
(* bucket, with versioning off or enabled, and lists the bucket            *)

ListObjectNames == {"w", "a/z", "a/z/"}
ListPrefixes == {"", "a/", "a"}
ListStartAfters == {"", "a/z"}
ListContents == {"v1"}
ListConfigs == {Enabled}
ListVersionIds == {NoVersionId, uuid4(1)}

NextList ==
    \/ \E e \in Endpoints, b \in BucketNames : make_bucket(e, b)
    \/ \E e \in Endpoints, b \in BucketNames, c \in ListConfigs :
          set_bucket_versioning(e, b, c)
    \/ \E e \in Endpoints, b \in BucketNames, k \in ListObjectNames,
          d \in ListContents : put_object(e, b, k, d)
    \/ \E e \in Endpoints, b \in BucketNames, k \in ListObjectNames,
          v \in ListVersionIds : remove_object(e, b, k, v)
    \/ \E e \in Endpoints, b \in BucketNames, prefix \in ListPrefixes,
          recursive \in BOOLEAN, start_after \in ListStartAfters,
          include_version \in BOOLEAN :
          list_objects(e, b, prefix, recursive, start_after, include_version)

SpecList == Init /\ [][NextList]_vars

----------------------------------------------------------------------------
(* The listing of the versions of an object: the calls of a client that    *)
(* puts and removes one object in each versioning mode and lists the       *)
(* bucket with include_version                                             *)

VersionsContents == {"v1"}

NextVersions ==
    \/ \E e \in Endpoints, b \in BucketNames : make_bucket(e, b)
    \/ \E e \in Endpoints, b \in BucketNames, c \in VersioningConfigs :
          set_bucket_versioning(e, b, c)
    \/ \E e \in Endpoints, b \in BucketNames, k \in ObjectNames,
          d \in VersionsContents : put_object(e, b, k, d)
    \/ \E e \in Endpoints, b \in BucketNames, k \in ObjectNames,
          v \in AllVersionIds : remove_object(e, b, k, v)
    \/ \E e \in Endpoints, b \in BucketNames :
          list_objects(e, b, "", TRUE, "", TRUE)

SpecVersions == Init /\ [][NextVersions]_vars

----------------------------------------------------------------------------
(* The lifecycle of buckets: the calls of a client that makes and removes  *)
(* two buckets, sets their versioning and puts and removes an object       *)

BucketsBucketNames == {"b1", "b2"}
BucketsContents == {"v1"}

NextBuckets ==
    \/ \E e \in Endpoints, b \in BucketsBucketNames : make_bucket(e, b)
    \/ \E e \in Endpoints, b \in BucketsBucketNames : remove_bucket(e, b)
    \/ \E e \in Endpoints, b \in BucketsBucketNames, c \in VersioningConfigs :
          set_bucket_versioning(e, b, c)
    \/ \E e \in Endpoints, b \in BucketsBucketNames, k \in ObjectNames,
          d \in BucketsContents : put_object(e, b, k, d)
    \/ \E e \in Endpoints, b \in BucketsBucketNames, k \in ObjectNames :
          remove_object(e, b, k, NoVersionId)

SpecBuckets == Init /\ [][NextBuckets]_vars

----------------------------------------------------------------------------
(* The storage operations of handles with a valid, an empty and a malformed *)
(* endpoint, on a bucket that is absent at first and can be made and       *)
(* removed                                                                 *)

CallsEndpoints == {ValidEndpoint, EmptyEndpoint, MalformedEndpoint}
CallsContents == {"v1"}
CallsConfigs == {Enabled}
CallsVersionIds == {NoVersionId, NullVersion}

NextCalls ==
    \/ \E e \in CallsEndpoints, b \in BucketNames : make_bucket(e, b)
    \/ \E e \in CallsEndpoints, b \in BucketNames : remove_bucket(e, b)
    \/ \E e \in CallsEndpoints, b \in BucketNames, c \in CallsConfigs :
          set_bucket_versioning(e, b, c)
    \/ \E e \in CallsEndpoints, b \in BucketNames :
          get_bucket_versioning(e, b)
    \/ \E e \in CallsEndpoints, b \in BucketNames : call_bucket_exists(e, b)
    \/ \E e \in CallsEndpoints : list_buckets(e)
    \/ \E e \in CallsEndpoints, b \in BucketNames, k \in ObjectNames,
          d \in CallsContents : put_object(e, b, k, d)
    \/ \E e \in CallsEndpoints, b \in BucketNames, k \in ObjectNames,
          v \in CallsVersionIds : remove_object(e, b, k, v)
    \/ \E e \in CallsEndpoints, b \in BucketNames, k \in ObjectNames,
          v \in CallsVersionIds : get_object(e, b, k, v)
    \/ \E e \in CallsEndpoints, b \in BucketNames, k \in ObjectNames,
          v \in CallsVersionIds : stat_object(e, b, k, v)
    \/ \E e \in CallsEndpoints, b \in BucketNames, include_version \in BOOLEAN :
          list_objects(e, b, "", TRUE, "", include_version)

SpecCalls == Init /\ [][NextCalls]_vars

----------------------------------------------------------------------------
(* MockMinioServers and the handles the patched Minio(endpoint) makes: each *)
(* handle holds the MockMinioServer that connect returned for its endpoint, *)
(* and its calls act on the buckets of that server                         *)

RegistryEndpoints == {ValidEndpoint}
Handles == {"client_1", "client_2"}
RegistryContents == {"v1"}

connect_AlwaysNew(endpoint) ==
    [servers |-> (endpoint :> Len(heap) + 1) @@ servers,
     heap |-> Append(heap, <<>>),
     server |-> Len(heap) + 1]

\* a connect that hands the first server out for every endpoint
connect_OneServer(endpoint) ==
    IF heap = <<>>
    THEN [servers |-> (endpoint :> 1) @@ servers,
          heap |-> Append(heap, <<>>),
          server |-> 1]
    ELSE [servers |-> (endpoint :> 1) @@ servers, heap |-> heap, server |-> 1]

\* MockMinioServers.connect: the registry and the server objects after the
\* call, and the server returned
connect(endpoint) ==
    IF endpoint \notin DOMAIN servers
    THEN [servers |-> (endpoint :> Len(heap) + 1) @@ servers,
          heap |-> Append(heap, <<>>),
          server |-> Len(heap) + 1]
    ELSE [servers |-> servers, heap |-> heap, server |-> servers[endpoint]]

\* minio_mock_init: client = MockMinioClient(endpoint);
\* client.connect(minio_mock_servers). since is the number of resets made
\* before, a history value that no call reads
Minio(handle, endpoint) ==
    LET c == connect(endpoint) IN
    /\ Len(c.heap) <= MaxServers
    /\ servers' = c.servers
    /\ heap' = c.heap
    /\ clients' = (handle :> [base_url |-> endpoint, buckets |-> c.server,
                              since |-> resets]) @@ clients
    /\ last' = Call("Minio", endpoint, "", "", "", "", "none", "")
    /\ UNCHANGED <<buckets, clock, nuuid, resets, pending>>

\* a reset that keeps the servers of the registry
reset_KeepServers ==
    /\ resets < MaxServers
    /\ resets' = resets + 1
    /\ last' = Call("reset", "", "", "", "", "", "none", "")
    /\ UNCHANGED <<buckets, clock, nuuid, servers, heap, clients, pending>>

\* MockMinioServers.reset
reset ==
    /\ resets < MaxServers
    /\ servers' = <<>>
    /\ resets' = resets + 1
    /\ last' = Call("reset", "", "", "", "", "", "none", "")
    /\ UNCHANGED <<buckets, clock, nuuid, heap, clients, pending>>

\* the buckets of the server a handle holds
BucketsOf(handle) == heap[clients[handle].buckets]

\* MockMinioClient.make_bucket through a handle
client_make_bucket(handle, bucket_name) ==
    /\ handle \in DOMAIN clients
    /\ LET hc == health_check(clients[handle].base_url) IN
       /\ last' = Call("make_bucket", clients[handle].base_url, bucket_name,
                       "", "", "", hc, "")
       /\ heap' = IF hc # "none" THEN heap
                  ELSE [heap EXCEPT ![clients[handle].buckets] =
                           SetBucket(@, bucket_name, MockMinioBucket(Off))]
    /\ UNCHANGED <<buckets, clock, nuuid, servers, clients, resets, pending>>

\* MockMinioClient.remove_bucket through a handle
client_remove_bucket(handle, bucket_name) ==
    /\ handle \in DOMAIN clients
    /\ LET hc == health_check(clients[handle].base_url)
           exc == IF hc # "none" THEN hc
                  ELSE IF bucket_name \notin DOMAIN BucketsOf(handle)
                  THEN "NoSuchBucket"
                  ELSE IF BucketsOf(handle)[bucket_name].objects # <<>>
                  THEN "BucketNotEmpty"
                  ELSE "none"
       IN
       /\ last' = Call("remove_bucket", clients[handle].base_url, bucket_name,
                       "", "", "", exc, "")
       /\ heap' = IF exc # "none" THEN heap
                  ELSE [heap EXCEPT ![clients[handle].buckets] =
                           [b \in DOMAIN @ \ {bucket_name} |-> @[b]]]
    /\ UNCHANGED <<buckets, clock, nuuid, servers, clients, resets, pending>>

\* MockMinioClient.put_object through a handle
client_put_object(handle, bucket_name, object_name, data) ==
    /\ handle \in DOMAIN clients
    /\ LET hc == health_check(clients[handle].base_url)
           exc == IF hc # "none" THEN hc
                  ELSE IF bucket_name \notin DOMAIN BucketsOf(handle)
                  THEN "NoSuchBucket"
                  ELSE "none"
       IN
       /\ exc = "none" => clock < MaxVersions
       /\ last' = Call("put_object", clients[handle].base_url, bucket_name,
                       object_name, "", data, exc,
                       IF exc = "none" THEN "Upload successful" ELSE "")
       /\ IF exc # "none"
          THEN UNCHANGED <<heap, clock>>
          ELSE /\ heap' = [heap EXCEPT ![clients[handle].buckets][bucket_name] =
                              MockMinioBucket_put_object(@, object_name, data,
                                  uuid4(nuuid + 1), clock + 1)]
               /\ clock' = clock + 1
    /\ UNCHANGED <<buckets, nuuid, servers, clients, resets, pending>>

\* MockMinioClient.list_buckets through a handle
client_list_buckets(handle) ==
    /\ handle \in DOMAIN clients
    /\ LET hc == health_check(clients[handle].base_url) IN
       last' = [Call("list_buckets", clients[handle].base_url, "", "", "", "",
                     hc, "")
                EXCEPT !.names = IF hc # "none" THEN {}
                                 ELSE DOMAIN BucketsOf(handle)]
    /\ UNCHANGED <<buckets, clock, nuuid, registry, pending>>

NextRegistry ==
    \/ \E h \in Handles, e \in RegistryEndpoints : Minio(h, e)
    \/ reset
    \/ \E h \in Handles, b \in BucketNames : client_make_bucket(h, b)
    \/ \E h \in Handles, b \in BucketNames : client_remove_bucket(h, b)
    \/ \E h \in Handles, b \in BucketNames, k \in ObjectNames,
          d \in RegistryContents : client_put_object(h, b, k, d)
    \/ \E h \in Handles : client_list_buckets(h)

SpecRegistry == Init /\ [][NextRegistry]_vars

----------------------------------------------------------------------------
(* Reads of one object: the calls of a client that puts and removes an     *)
(* object in each versioning mode and reads it with get_object and         *)
(* stat_object, with every kind of version id                              *)

ReadsContents == {"v1"}

NextReads ==
    \/ \E e \in Endpoints, b \in BucketNames : make_bucket(e, b)
    \/ \E e \in Endpoints, b \in BucketNames, c \in VersioningConfigs :
          set_bucket_versioning(e, b, c)
    \/ \E e \in Endpoints, b \in BucketNames, k \in ObjectNames,
          d \in ReadsContents : put_object(e, b, k, d)
    \/ \E e \in Endpoints, b \in BucketNames, k \in ObjectNames,
          v \in AllVersionIds : remove_object(e, b, k, v)
    \/ \E e \in Endpoints, b \in BucketNames, k \in ObjectNames,
          v \in AllVersionIds : get_object(e, b, k, v)
    \/ \E e \in Endpoints, b \in BucketNames, k \in ObjectNames,
          v \in AllVersionIds : stat_object(e, b, k, v)

SpecReads == Init /\ [][NextReads]_vars

----------------------------------------------------------------------------
(* The documented use of a bucket: it is made, its versioning is set to    *)
(* Enabled or Suspended, objects are put, removed without version id, with *)
(* "null" or with the id of a stored Version, and read                     *)

DocumentedConfigs == {Enabled, Suspended}
DocumentedContents == {"v1"}
DocumentedReadIds == {NoVersionId, NullVersion}

\* the ids list_objects(include_version=True) shows for the object
ListedVersionIds(bucket_name, object_name) ==
    IF bucket_name \in DOMAIN buckets
    THEN {e.version_id :
            e \in {MockMinioBucket_list_objects(buckets[bucket_name], "", TRUE,
                                                "", TRUE).entries[i] :
                     i \in DOMAIN MockMinioBucket_list_objects(
                                      buckets[bucket_name], "", TRUE, "",
                                      TRUE).entries}}
    ELSE {}

\* remove_object with no version id, with "null" or with a listed id
remove_listed_object(endpoint, bucket_name, object_name, version_id) ==
    /\ version_id \in {NoVersionId, NullVersion}
                         \cup ListedVersionIds(bucket_name, object_name)
    /\ remove_object(endpoint, bucket_name, object_name, version_id)

NextDocumented ==
    \/ \E e \in Endpoints, b \in BucketNames : make_bucket(e, b)
    \/ \E e \in Endpoints, b \in BucketNames, c \in DocumentedConfigs :
          set_bucket_versioning(e, b, c)
    \/ \E e \in Endpoints, b \in BucketNames, k \in ObjectNames,
          d \in DocumentedContents : put_object(e, b, k, d)
    \/ \E e \in Endpoints, b \in BucketNames, k \in ObjectNames,
          v \in AllVersionIds : remove_listed_object(e, b, k, v)
    \/ \E e \in Endpoints, b \in BucketNames, k \in ObjectNames,
          v \in DocumentedReadIds : get_object(e, b, k, v)
    \/ \E e \in Endpoints, b \in BucketNames, k \in ObjectNames,
          v \in DocumentedReadIds : stat_object(e, b, k, v)
    \/ \E e \in Endpoints, b \in BucketNames, include_version \in BOOLEAN :
          list_objects(e, b, "", TRUE, "", include_version)

SpecDocumented == Init /\ [][NextDocumented]_vars

----------------------------------------------------------------------------
(* Two servers: handles connected to two endpoints through one registry,  *)
(* each server with up to two buckets                                      *)

IsolationEndpoints == {ValidEndpoint, OtherEndpoint}
IsolationBucketNames == {"b1", "b2"}
IsolationContents == {"v1"}

NextIsolation ==
    \/ \E h \in Handles, e \in IsolationEndpoints : Minio(h, e)
    \/ \E h \in Handles, b \in IsolationBucketNames : client_make_bucket(h, b)
    \/ \E h \in Handles, b \in IsolationBucketNames : client_remove_bucket(h, b)
    \/ \E h \in Handles, b \in IsolationBucketNames, k \in ObjectNames,
          d \in IsolationContents : client_put_object(h, b, k, d)
    \/ \E h \in Handles : client_list_buckets(h)

SpecIsolation == Init /\ [][NextIsolation]_vars

----------------------------------------------------------------------------
(* Removals: objects are put and removed with every kind of version id in  *)
(* every mode, and the bucket is removed                                   *)

RemovalsContents == {"v1"}

NextRemovals ==
    \/ \E e \in Endpoints, b \in BucketNames : make_bucket(e, b)
    \/ \E e \in Endpoints, b \in BucketNames : remove_bucket(e, b)
    \/ \E e \in Endpoints, b \in BucketNames, c \in VersioningConfigs :
          set_bucket_versioning(e, b, c)
    \/ \E e \in Endpoints, b \in BucketNames, k \in ObjectNames,
          d \in RemovalsContents : put_object(e, b, k, d)
    \/ \E e \in Endpoints, b \in BucketNames, k \in ObjectNames,
          v \in AllVersionIds : remove_object(e, b, k, v)

SpecRemovals == Init /\ [][NextRemovals]_vars

----------------------------------------------------------------------------
(* list_objects as a generator: MockMinioBucket.list_objects is a generator *)
(* function, so the client call returns before any line of its body has    *)
(* run, and the body runs when the caller consumes the generator; here the *)
(* caller consumes it to its end in one step, list(generator), after any   *)
(* number of other calls                                                   *)

LazyObjectNames == {"k1", "w"}
LazyContents == {"v1"}

\* MockMinioClient.list_objects: the bucket is looked up and the generator of
\* MockMinioBucket.list_objects is returned; only one generator is held
list_objects_call(endpoint, bucket_name, prefix, recursive, start_after, include_version) ==
    LET exc == IF bucket_name \notin DOMAIN ServerBuckets(endpoint)
               THEN "NoSuchBucket" ELSE "none"
    IN
    /\ ~pending.open
    /\ last' = [Call("list_objects_call", endpoint, bucket_name, "", "", "",
                      exc, "")
                 EXCEPT !.list_args =
                            [prefix |-> prefix, recursive |-> recursive,
                             start_after |-> start_after,
                             include_version |-> include_version]]
    /\ pending' = IF exc # "none" THEN pending
                  ELSE [open |-> TRUE, bucket_name |-> bucket_name,
                        list_args |->
                            [prefix |-> prefix, recursive |-> recursive,
                             start_after |-> start_after,
                             include_version |-> include_version],
                        at_call |-> buckets[bucket_name].objects]
    /\ UNCHANGED <<buckets, clock, nuuid, registry>>

\* list(generator): the body of MockMinioBucket.list_objects runs now, on
\* the objects the bucket holds now
list_objects_consume ==
    LET a == pending.list_args
        r == MockMinioBucket_list_objects(buckets[pending.bucket_name],
                 a.prefix, a.recursive, a.start_after, a.include_version)
    IN
    /\ pending.open
    /\ pending.bucket_name \in DOMAIN buckets
    /\ last' = [Call("list_objects_consume", ValidEndpoint,
                      pending.bucket_name, "", "", "", r.exc, "")
                 EXCEPT !.list_args = a, !.entries = r.entries]
    /\ pending' = NoPending
    /\ UNCHANGED <<buckets, clock, nuuid, registry>>

NextLazy ==
    \/ \E e \in Endpoints, b \in BucketNames : make_bucket(e, b)
    \/ \E e \in Endpoints, b \in BucketNames, k \in LazyObjectNames,
          d \in LazyContents : put_object(e, b, k, d)
    \/ \E e \in Endpoints, b \in BucketNames, k \in LazyObjectNames :
          remove_object(e, b, k, NoVersionId)
    \/ \E e \in Endpoints, b \in BucketNames, include_version \in BOOLEAN :
          list_objects_call(e, b, "", TRUE, "", include_version)
    \/ list_objects_consume

SpecLazy == Init /\ [][NextLazy]_vars

----------------------------------------------------------------------------
(* Properties *)

\* the Versions stored under object_name in bucket bucket_name of the store
\* bs; none when the bucket or the object is absent
StoredVersions(bs, bucket_name, object_name) ==
    IF bucket_name \in DOMAIN bs /\ HasObject(bs[bucket_name].objects, object_name)
    THEN VersionsOf(bs[bucket_name], object_name)
    ELSE <<>>

LatestCount(versions) ==
    Cardinality({i \in DOMAIN versions : versions[i].is_latest})

VersionIds(versions) == {versions[i].version_id : i \in DOMAIN versions}

\* a Version but for its is-latest flag
Snapshot(v) ==
    [data |-> v.data, version_id |-> v.version_id,
     is_delete_marker |-> v.is_delete_marker, last_modified |-> v.last_modified]

\* the last call was op, it returned, and it was about bucket b, object k
Returned(call, op, b, k) ==
    /\ call.op = op
    /\ call.exc = "none"
    /\ call.bucket_name = b
    /\ call.object_name = k

\* C1: in every reachable state every VersionedObject with a non-empty
\* version map has exactly one Version flagged latest (and an empty one has
\* none).
C1_ExactlyOneLatest ==
    \A b \in DOMAIN buckets : \A i \in DOMAIN buckets[b].objects :
        LET versions == buckets[b].objects[i].versions
        IN LatestCount(versions) = IF versions = <<>> THEN 0 ELSE 1

\* C6: once a bucket's mode is Enabled or Suspended, no accepted
\* set_bucket_versioning call returns the bucket to Off.
C6_NeverBackToOff ==
    [][\A b \in DOMAIN buckets :
          (/\ buckets[b].versioning \in {Enabled, Suspended}
           /\ Returned(last', "set_bucket_versioning", b, ""))
          => buckets'[b].versioning # Off]_vars

\* C9: in mode Enabled or Suspended, remove_object(name, v) with v among the
\* object's Versions completes without error, removes exactly the Version v,
\* leaves every other Version with its content, identifier and delete-marker
\* flag, and, if v was the latest and Versions remain, exactly one of them
\* is latest afterwards.
C9_RemoveVersionById ==
    [][\A b \in DOMAIN buckets : \A k \in ObjectNames :
          LET old == StoredVersions(buckets, b, k)
              new == StoredVersions(buckets', b, k)
              v == last'.version_id
          IN (/\ last'.op = "remove_object"
              /\ last'.bucket_name = b
              /\ last'.object_name = k
              /\ buckets[b].versioning \in {Enabled, Suspended}
              /\ v \in VersionIds(old))
             => /\ last'.exc = "none"
                /\ [i \in DOMAIN new |-> Snapshot(new[i])]
                     = [i \in DOMAIN DictDel(old, v) |->
                           Snapshot(DictDel(old, v)[i])]
                /\ (old[KeyIdx(old, v)].is_latest /\ new # <<>>)
                     => LatestCount(new) = 1]_vars

\* the Versions of old are all in new, at their positions, with their
\* content, identifier, delete-marker flag and timestamp
Retained(old, new) ==
    /\ Len(new) >= Len(old)
    /\ \A i \in DOMAIN old : Snapshot(new[i]) = Snapshot(old[i])

\* the tokens uuid4() has issued in the state with counter n
Issued(n) == {uuid4(i) : i \in 1..n}

\* C2: in every mode, put_object(name, content) immediately followed by
\* get_object(name) without a version id succeeds and returns content: in
\* the state a put_object leaves, that read returns the content just put.
C2_PutThenGet ==
    \A b \in DOMAIN buckets : \A k \in ObjectNames :
        Returned(last, "put_object", b, k)
        => GetObjectResult(last.endpoint, b, k, NoVersionId)
             = [exc |-> "none", data |-> last.data]

\* C2 witness: a put in mode Suspended on an object that keeps a delete
\* marker created while Enabled
C2_Witness ==
    \E b \in DOMAIN buckets : \E k \in ObjectNames :
        /\ Returned(last, "put_object", b, k)
        /\ buckets[b].versioning = Suspended
        /\ \E i \in DOMAIN StoredVersions(buckets, b, k) :
              /\ StoredVersions(buckets, b, k)[i].is_delete_marker
              /\ StoredVersions(buckets, b, k)[i].version_id # NullVersion

\* C3: in mode Off, after a put the object holds exactly one Version, with
\* identifier "null" and the content of that put, and get(name) returns it.
C3_OffSingleVersion ==
    \A b \in DOMAIN buckets : \A k \in ObjectNames :
        (Returned(last, "put_object", b, k) /\ buckets[b].versioning = Off)
        => LET versions == StoredVersions(buckets, b, k)
           IN /\ Len(versions) = 1
              /\ versions[1].version_id = NullVersion
              /\ versions[1].data = last.data
              /\ ~versions[1].is_delete_marker
              /\ GetObjectResult(last.endpoint, b, k, NoVersionId)
                   = [exc |-> "none", data |-> last.data]

\* C3 witness: the third of three puts in a bucket that never left mode Off
C3_Witness ==
    \E b \in DOMAIN buckets : \E k \in ObjectNames :
        /\ Returned(last, "put_object", b, k)
        /\ buckets[b].versioning = Off
        /\ clock = 3
        /\ nuuid = 0
        /\ StoredVersions(buckets, b, k)[1].last_modified = 3

\* C4: in mode Enabled, a put adds one Version to the object: the prior
\* Versions are retained, the new one carries the content put and an
\* identifier that no stored Version has and that was never issued before
\* (also not to a Version since removed), and it is the only latest; so N
\* puts to an absent name leave N Versions with distinct identifiers.
C4_EnabledPutAppends ==
    [][\A b \in DOMAIN buckets : \A k \in ObjectNames :
          LET old == StoredVersions(buckets, b, k)
              new == StoredVersions(buckets', b, k)
          IN (Returned(last', "put_object", b, k)
                /\ buckets[b].versioning = Enabled)
             => /\ Len(new) = Len(old) + 1
                /\ Retained(old, new)
                /\ Cardinality(VersionIds(new)) = Len(new)
                /\ new[Len(new)].version_id \notin VersionIds(old) \cup Issued(nuuid)
                /\ new[Len(new)].version_id # NullVersion
                /\ new[Len(new)].data = last'.data
                /\ ~new[Len(new)].is_delete_marker
                /\ \A i \in DOMAIN new : new[i].is_latest <=> i = Len(new)]_vars

\* C4 witness: three puts in mode Enabled left three Versions
C4_Witness ==
    \E b \in DOMAIN buckets : \E k \in ObjectNames :
        /\ Returned(last, "put_object", b, k)
        /\ buckets[b].versioning = Enabled
        /\ Len(StoredVersions(buckets, b, k)) = 3
        /\ nuuid = 3

\* C5: a put in mode Suspended writes a Version "null" and leaves every
\* Version whose identifier is not "null" present with its content,
\* identifier and delete-marker flag; only a pre-existing "null" Version is
\* replaced.
C5_SuspendedPutKeepsHistory ==
    [][\A b \in DOMAIN buckets : \A k \in ObjectNames :
          LET old == StoredVersions(buckets, b, k)
              new == StoredVersions(buckets', b, k)
          IN (Returned(last', "put_object", b, k)
                /\ buckets[b].versioning = Suspended)
             => /\ VersionIds(new) = VersionIds(old) \cup {NullVersion}
                /\ Cardinality(VersionIds(new)) = Len(new)
                /\ \A j \in DOMAIN new :
                      new[j].version_id = NullVersion
                      => /\ new[j].data = last'.data
                         /\ ~new[j].is_delete_marker
                         /\ new[j].is_latest
                /\ \A i \in DOMAIN old :
                      old[i].version_id # NullVersion
                      => \E j \in DOMAIN new : Snapshot(new[j]) = Snapshot(old[i])]_vars

\* C5 witness: a Suspended-mode put replaced a "null" Version that is older
\* than a retained Version created while Enabled
C5_Witness ==
    \E b \in DOMAIN buckets : \E k \in ObjectNames :
        LET versions == StoredVersions(buckets, b, k) IN
        /\ Returned(last, "put_object", b, k)
        /\ buckets[b].versioning = Suspended
        /\ Len(versions) >= 2
        /\ versions[1].version_id = NullVersion
        /\ versions[1].last_modified = clock
        /\ versions[2].version_id # NullVersion

\* C7: in mode Enabled, remove_object(name) without a version id: if the
\* latest Version is not a delete marker, one Version is added, with a fresh
\* identifier, empty content, delete-marker set, the only latest, all prior
\* Versions retained; if the latest Version is a delete marker, the state is
\* unchanged.
C7_EnabledRemoveAddsMarker ==
    [][\A b \in DOMAIN buckets : \A k \in ObjectNames :
          LET old == StoredVersions(buckets, b, k)
              new == StoredVersions(buckets', b, k)
          IN (/\ last'.op = "remove_object"
              /\ last'.bucket_name = b
              /\ last'.object_name = k
              /\ last'.version_id = NoVersionId
              /\ buckets[b].versioning = Enabled
              /\ \E i \in DOMAIN old : old[i].is_latest)
             => IF \E i \in DOMAIN old : old[i].is_latest /\ old[i].is_delete_marker
                THEN /\ last'.exc = "none"
                     /\ UNCHANGED <<buckets, clock, nuuid>>
                ELSE /\ last'.exc = "none"
                     /\ Len(new) = Len(old) + 1
                     /\ Retained(old, new)
                     /\ new[Len(new)].version_id
                          \notin VersionIds(old) \cup Issued(nuuid) \cup {NullVersion}
                     /\ new[Len(new)].data = EmptyData
                     /\ new[Len(new)].is_delete_marker
                     /\ \A i \in DOMAIN new : new[i].is_latest <=> i = Len(new)]_vars

\* C7 witness: a remove without version id in mode Enabled has just put a
\* delete marker after two retained Versions
C7_Witness ==
    \E b \in DOMAIN buckets : \E k \in ObjectNames :
        LET versions == StoredVersions(buckets, b, k) IN
        /\ Returned(last, "remove_object", b, k)
        /\ last.version_id = NoVersionId
        /\ buckets[b].versioning = Enabled
        /\ Len(versions) = 3
        /\ versions[3].is_delete_marker
        /\ versions[3].last_modified = clock

\* the Versions a read of version_id resolves to: the one with that
\* identifier, or without identifier the "null" Version in mode Off and the
\* Version flagged latest in the other modes
Resolved(versions, version_id, status) ==
    IF version_id # NoVersionId
    THEN {i \in DOMAIN versions : versions[i].version_id = version_id}
    ELSE IF status = Off
    THEN {i \in DOMAIN versions : versions[i].version_id = NullVersion}
    ELSE {i \in DOMAIN versions : versions[i].is_latest}

\* C8: get_object fails with MethodNotAllowed whenever the Version it
\* resolves is a delete marker, with the version id omitted or given, and a
\* get_object that returns never returns a delete marker.
C8_DeleteMarkerNotReadable ==
    \A b \in DOMAIN buckets : \A k \in ObjectNames : \A v \in VersionIdInputs :
        LET versions == StoredVersions(buckets, b, k)
            status == buckets[b].versioning
            got == MockMinioObject_get_object(versions, v, status)
        IN /\ (\E i \in Resolved(versions, v, status) : versions[i].is_delete_marker)
                => GetObjectResult(ValidEndpoint, b, k, v).exc = "MethodNotAllowed"
           /\ (HasObject(buckets[b].objects, k) /\ got.exc = "none")
                => /\ got.idx \in Resolved(versions, v, status)
                   /\ ~versions[got.idx].is_delete_marker
                   /\ GetObjectResult(ValidEndpoint, b, k, v)
                        = [exc |-> "none", data |-> versions[got.idx].data]

\* C8 witness: a get_object with the delete marker's own version id was
\* refused
C8_Witness ==
    \E b \in DOMAIN buckets : \E k \in ObjectNames :
        /\ last.op = "get_object"
        /\ last.bucket_name = b
        /\ last.object_name = k
        /\ last.exc = "MethodNotAllowed"
        /\ last.version_id \notin {NoVersionId, NullVersion}
        /\ \E i \in DOMAIN StoredVersions(buckets, b, k) :
              /\ StoredVersions(buckets, b, k)[i].version_id = last.version_id
              /\ StoredVersions(buckets, b, k)[i].is_delete_marker

\* C10: in mode Suspended, remove_object(name) without a version id sets the
\* delete-marker flag of the Version flagged latest and changes nothing
\* else: the Versions, their identifiers, contents and latest flags are the
\* same before and after.
C10_SuspendedRemoveMarksLatest ==
    [][\A b \in DOMAIN buckets : \A k \in ObjectNames :
          LET old == StoredVersions(buckets, b, k)
              new == StoredVersions(buckets', b, k)
          IN (/\ last'.op = "remove_object"
              /\ last'.bucket_name = b
              /\ last'.object_name = k
              /\ last'.version_id = NoVersionId
              /\ buckets[b].versioning = Suspended
              /\ HasObject(buckets[b].objects, k))
             => /\ buckets' = [buckets EXCEPT ![b].objects[
                                   ObjectIdx(buckets[b].objects, k)].versions = new]
                /\ UNCHANGED <<clock, nuuid>>
                /\ Len(new) = Len(old)
                /\ \A i \in DOMAIN old :
                      /\ new[i] = [old[i] EXCEPT !.is_delete_marker =
                                      old[i].is_latest \/ old[i].is_delete_marker]
                /\ (\E i \in DOMAIN old : old[i].is_latest) => last'.exc = "none"]_vars

\* C10 witness: a Suspended-mode remove without version id has marked the
\* latest of two Versions, the other being a Version created while Enabled
C10_Witness ==
    \E b \in DOMAIN buckets : \E k \in ObjectNames :
        LET versions == StoredVersions(buckets, b, k) IN
        /\ Returned(last, "remove_object", b, k)
        /\ last.version_id = NoVersionId
        /\ buckets[b].versioning = Suspended
        /\ Len(versions) = 2
        /\ \E i \in DOMAIN versions :
              /\ versions[i].is_latest
              /\ versions[i].is_delete_marker
              /\ versions[i].data # EmptyData
        /\ \E i \in DOMAIN versions :
              /\ ~versions[i].is_latest
              /\ ~versions[i].is_delete_marker

\* C11: in each mode, remove_object on an object name that is not in the
\* bucket, or with a version id that is not among the object's Versions,
\* raises no error and leaves the whole Store unchanged.
C11_RemoveAbsentIsNoOp ==
    [][\A b \in DOMAIN buckets : \A k \in ObjectNames :
          (/\ last'.op = "remove_object"
           /\ last'.bucket_name = b
           /\ last'.object_name = k
           /\ \/ ~HasObject(buckets[b].objects, k)
              \/ /\ last'.version_id # NoVersionId
                 /\ last'.version_id \notin VersionIds(StoredVersions(buckets, b, k)))
          => /\ last'.exc = "none"
             /\ UNCHANGED <<buckets, clock, nuuid>>]_vars

\* C12: in mode Off, remove_object of a stored name without a version id
\* drops the whole entry and creates no delete marker: right after it the
\* name is absent from the bucket, no Version was created, list_objects
\* emits nothing for the name with or without include_version, and
\* get_object of the name fails with NoSuchKey.
C12_OffRemoveDropsEntry ==
    [][\A b \in DOMAIN buckets : \A k \in ObjectNames :
          (/\ last'.op = "remove_object"
           /\ last'.bucket_name = b
           /\ last'.object_name = k
           /\ last'.version_id = NoVersionId
           /\ buckets[b].versioning = Off
           /\ HasObject(buckets[b].objects, k))
          => /\ last'.exc = "none"
             /\ b \in DOMAIN buckets'
             /\ ~HasObject(buckets'[b].objects, k)
             /\ UNCHANGED <<clock, nuuid>>
             /\ \A include_version \in BOOLEAN :
                  LET r == MockMinioBucket_list_objects(buckets'[b], "", TRUE,
                                                       "", include_version)
                  IN /\ r.exc = "none"
                     /\ \A i \in DOMAIN r.entries :
                          r.entries[i].object_name # Chars(k)
             /\ MockMinioBucket_get_object(buckets'[b], k, NoVersionId).exc
                    = "NoSuchKey"]_vars

\* a stored object was put and then removed without a version id in mode Off
C12_Witness ==
    /\ last.op = "remove_object"
    /\ last.version_id = NoVersionId
    /\ last.exc = "none"
    /\ clock > 0
    /\ last.bucket_name \in DOMAIN buckets
    /\ buckets[last.bucket_name].versioning = Off
    /\ ~HasObject(buckets[last.bucket_name].objects, last.object_name)

\* the part of the name k after the prefix P
Remainder(k, P) == SubSeq(Chars(k), Len(Chars(P)) + 1, Len(Chars(k)))

HasSlash(s) == \E i \in DOMAIN s : s[i] = "/"

\* the names a listing with the given prefix and start_after is to consider
Matches(k, P, start_after) ==
    /\ StartsWith(Chars(k), Chars(P))
    /\ StrGreater(Chars(k), Chars(start_after))

\* the state is the one a list_objects call on bucket b has returned in
Listed(b) == last.op = "list_objects" /\ last.bucket_name = b

\* the positions of the plain entries of the name k in a listing
PlainEntries(entries, k) ==
    {i \in DOMAIN entries :
        ~entries[i].is_dir /\ entries[i].object_name = Chars(k)}

\* the latest Version exists and is not a delete marker
LatestIsLive(versions) ==
    \E i \in DOMAIN versions :
        versions[i].is_latest /\ ~versions[i].is_delete_marker

\* C13: list_objects without include_version emits, for each matching stored
\* name that is not collapsed into a common prefix, one entry when the
\* latest Version of the object is not a delete marker and none otherwise.
C13_ListLatestOnly ==
    \A b \in DOMAIN buckets : \A k \in ListObjectNames :
        (/\ Listed(b)
         /\ ~last.list_args.include_version
         /\ HasObject(buckets[b].objects, k)
         /\ Matches(k, last.list_args.prefix, last.list_args.start_after)
         /\ (last.list_args.recursive \/ ~HasSlash(Remainder(k, last.list_args.prefix))))
        => Cardinality(PlainEntries(last.entries, k))
              = IF LatestIsLive(VersionsOf(buckets[b], k)) THEN 1 ELSE 0

\* the entries of the name k in a listing, in the order of the listing
EntriesOf(entries, k) ==
    SelectSeq(entries, LAMBDA e : ~e.is_dir /\ e.object_name = Chars(k))

\* C14: a list_objects call with include_version returns, for each stored
\* object, exactly one entry per stored Version, with the id, the is-latest
\* flag and the delete-marker flag of that Version; no non-delete-marker
\* entry comes after a delete marker of the same object and within each of
\* the two groups the entries are newest first; when the call follows a
\* put_object, the first entry of the object put is the one flagged latest.
C14_ListVersions ==
    [][(last'.op = "list_objects" /\ last'.list_args.include_version
        /\ last'.bucket_name \in DOMAIN buckets)
       => LET b == last'.bucket_name
              E(k) == EntriesOf(last'.entries, k)
          IN /\ last'.exc = "none"
             /\ \A i \in DOMAIN last'.entries :
                  /\ ~last'.entries[i].is_dir
                  /\ \E k \in ObjectNames :
                       /\ HasObject(buckets[b].objects, k)
                       /\ last'.entries[i].object_name = Chars(k)
             /\ \A k \in ObjectNames :
                  HasObject(buckets[b].objects, k) =>
                    LET versions == VersionsOf(buckets[b], k)
                    IN /\ Len(E(k)) = Len(versions)
                       /\ \A i \in DOMAIN versions :
                            \E j \in DOMAIN E(k) :
                              /\ E(k)[j].version_id = versions[i].version_id
                              /\ E(k)[j].is_latest
                                    = (IF versions[i].is_latest
                                       THEN "true" ELSE "false")
                              /\ E(k)[j].is_delete_marker
                                    = versions[i].is_delete_marker
                              /\ E(k)[j].last_modified
                                    = versions[i].last_modified
                       /\ \A i, j \in DOMAIN E(k) :
                            i < j =>
                              /\ ~(E(k)[i].is_delete_marker
                                   /\ ~E(k)[j].is_delete_marker)
                              /\ (E(k)[i].is_delete_marker
                                     = E(k)[j].is_delete_marker)
                                 => E(k)[i].last_modified
                                       > E(k)[j].last_modified
             /\ (last.op = "put_object" /\ last.exc = "none"
                 /\ last.bucket_name = b)
                => /\ E(last.object_name) # <<>>
                   /\ \A i \in DOMAIN E(last.object_name) :
                        E(last.object_name)[i].is_latest
                           = (IF i = 1 THEN "true" ELSE "false")]_vars

\* a listing of an object with two live Versions and a delete marker that
\* is stored between them
C14_Witness ==
    /\ last.op = "list_objects"
    /\ last.list_args.include_version
    /\ last.exc = "none"
    /\ Len(last.entries) = 3
    /\ ~last.entries[1].is_delete_marker
    /\ ~last.entries[2].is_delete_marker
    /\ last.entries[3].is_delete_marker
    /\ StoredVersions(buckets, last.bucket_name, "k1")[2].is_delete_marker

\* the bucket holds the name k, which a listing with the arguments of the
\* last call is to consider
Considered(b, k) ==
    /\ HasObject(buckets[b].objects, k)
    /\ Matches(k, last.list_args.prefix, last.list_args.start_after)

\* C15: the entries a list_objects call returns are entries of stored names
\* that start with the prefix and are greater than start_after, and they
\* come in ascending lexical order of object name.
C15_ListLexicalOrder ==
    \A b \in DOMAIN buckets :
        Listed(b) =>
          /\ \A i \in DOMAIN last.entries :
               ~last.entries[i].is_dir =>
                 \E k \in ListObjectNames :
                   /\ Considered(b, k)
                   /\ last.entries[i].object_name = Chars(k)
          /\ \A i, j \in DOMAIN last.entries :
               i < j => ~StrGreater(last.entries[i].object_name,
                                    last.entries[j].object_name)

\* the string s up to and including its first "/"
UpToFirstSlash(s) == SubSeq(s, 1, Find(s) + 1)

\* the positions of the common-prefix entries named dir_name in a listing
DirEntries(entries, dir_name) ==
    {i \in DOMAIN entries :
        entries[i].is_dir /\ entries[i].object_name = dir_name}

\* the number of plain entries a listing holds for an object that is not
\* collapsed
PlainCount(versions, include_version) ==
    IF include_version THEN Len(versions)
    ELSE IF LatestIsLive(versions) THEN 1 ELSE 0

\* C16: in a non-recursive list_objects call with prefix P that runs to its
\* end, a considered name whose remainder after P contains a "/" has no
\* plain entry and P plus the remainder up to and including its first "/"
\* is a common-prefix entry emitted once; a considered name whose remainder
\* has no "/" has its plain entries; a recursive call emits no common
\* prefix and the plain entries of every considered name.
C16_CollapseRule ==
    \A b \in DOMAIN buckets : \A k \in ListObjectNames :
        (Listed(b) /\ last.exc = "none" /\ Considered(b, k)) =>
          LET P == last.list_args.prefix
              plain == Cardinality(PlainEntries(last.entries, k))
                          = PlainCount(VersionsOf(buckets[b], k),
                                       last.list_args.include_version)
          IN IF last.list_args.recursive
             THEN plain /\ \A i \in DOMAIN last.entries : ~last.entries[i].is_dir
             ELSE IF HasSlash(Remainder(k, P))
             THEN /\ PlainEntries(last.entries, k) = {}
                  /\ Cardinality(DirEntries(last.entries,
                         Chars(P) \o UpToFirstSlash(Remainder(k, P)))) = 1
             ELSE plain

\* the names of the plain entries of a listing
PlainNames(entries) ==
    {entries[i].object_name : i \in {j \in DOMAIN entries : ~entries[j].is_dir}}

\* the names of the common-prefix entries of a listing
DirNames(entries) ==
    {entries[i].object_name : i \in {j \in DOMAIN entries : entries[j].is_dir}}

\* C17: in every state, for every prefix P, when both listings run to their
\* end, every plain entry of the non-recursive listing of P is in the
\* recursive listing of P and every common prefix of the non-recursive
\* listing is a proper prefix of an object name of the recursive listing.
C17_RecursiveCoversNonRecursive ==
    \A b \in DOMAIN buckets : \A P \in ListPrefixes :
      \A include_version \in BOOLEAN :
        LET rec == MockMinioBucket_list_objects(buckets[b], P, TRUE, "",
                                                include_version)
            non == MockMinioBucket_list_objects(buckets[b], P, FALSE, "",
                                                include_version)
        IN (rec.exc = "none" /\ non.exc = "none") =>
             /\ PlainNames(non.entries) \subseteq PlainNames(rec.entries)
             /\ \A D \in DirNames(non.entries) :
                  \E n \in PlainNames(rec.entries) :
                      StartsWith(n, D) /\ n # D

\* the number of "/" in the string s
SlashCount(s) == Cardinality({i \in DOMAIN s : s[i] = "/"})

\* C18: every entry of a non-recursive list_objects call with prefix P
\* starts with P and has at most one "/" in the part after P.
C18_AtMostOneSlashBeyondPrefix ==
    \A b \in DOMAIN buckets :
        (Listed(b) /\ ~last.list_args.recursive) =>
          \A i \in DOMAIN last.entries :
            LET P == Chars(last.list_args.prefix)
                n == last.entries[i].object_name
            IN /\ StartsWith(n, P)
               /\ SlashCount(SubSeq(n, Len(P) + 1, Len(n))) <= 1

\* the store bs without the bucket b
WithoutBucket(bs, b) == [c \in DOMAIN bs \ {b} |-> bs[c]]

\* C19: with a valid endpoint, remove_bucket raises NoSuchBucket when the
\* bucket is absent and BucketNotEmpty when it holds an object, and the
\* Store is unchanged in both cases; otherwise it raises nothing and deletes
\* that bucket only, and bucket_exists is false in the state it leaves.
\* make_bucket of a new name adds that bucket only, so that removing it
\* gives back the buckets there were before.
C19_RemoveBucket ==
    [][\A b \in BucketsBucketNames :
          /\ (last'.op = "remove_bucket" /\ last'.bucket_name = b
              /\ last'.endpoint = ValidEndpoint)
             => /\ UNCHANGED <<clock, nuuid>>
                /\ IF b \notin DOMAIN buckets
                   THEN last'.exc = "NoSuchBucket" /\ UNCHANGED buckets
                   ELSE IF buckets[b].objects # <<>>
                   THEN last'.exc = "BucketNotEmpty" /\ UNCHANGED buckets
                   ELSE /\ last'.exc = "none"
                        /\ buckets' = WithoutBucket(buckets, b)
                        /\ ~bucket_exists(b)'
          /\ (last'.op = "make_bucket" /\ last'.bucket_name = b
              /\ last'.endpoint = ValidEndpoint /\ b \notin DOMAIN buckets)
             => /\ b \in DOMAIN buckets'
                /\ WithoutBucket(buckets', b) = buckets]_vars

\* a bucket was removed while another bucket, which holds an object, stays
C19_Witness ==
    /\ last.op = "remove_bucket"
    /\ last.exc = "none"
    /\ last.bucket_name \notin DOMAIN buckets
    /\ \E c \in DOMAIN buckets : buckets[c].objects # <<>>

\* C20: with a valid endpoint make_bucket raises nothing and bucket_exists
\* is true in the state it leaves; the bucket of that name is then a fresh
\* one, with no object and versioning Off, whatever bucket of that name
\* there was before.
C20_MakeBucket ==
    [][\A b \in BucketsBucketNames :
          (last'.op = "make_bucket" /\ last'.bucket_name = b
           /\ last'.endpoint = ValidEndpoint)
          => /\ last'.exc = "none"
             /\ bucket_exists(b)'
             /\ buckets'[b].objects = <<>>
             /\ buckets'[b].versioning = Off
             /\ UNCHANGED <<clock, nuuid>>]_vars

\* make_bucket was called for a bucket that held versions of an object and
\* whose versioning was not Off
C20_Witness ==
    /\ last.op = "make_bucket"
    /\ last.exc = "none"
    /\ last.bucket_name \in DOMAIN buckets
    /\ buckets[last.bucket_name] = MockMinioBucket(Off)
    /\ \A c \in DOMAIN buckets : buckets[c].objects = <<>>
    /\ nuuid > 0

\* the operations that take the name of an existing bucket
BucketOperations ==
    {"get_object", "stat_object", "put_object", "list_objects",
     "remove_object", "get_bucket_versioning", "set_bucket_versioning"}

\* C21: each of get_object, stat_object, put_object, list_objects,
\* remove_object, get_bucket_versioning and set_bucket_versioning, called
\* with a valid endpoint on a bucket name that is absent from the Store,
\* fails with NoSuchBucket and leaves the Store unchanged.
C21_AbsentBucketIsNoSuchBucket ==
    [][(/\ last'.op \in BucketOperations
        /\ last'.endpoint = ValidEndpoint
        /\ last'.bucket_name \notin DOMAIN buckets)
       => /\ last'.exc = "NoSuchBucket"
          /\ UNCHANGED <<buckets, clock, nuuid>>]_vars

\* every storage operation of a client handle
StorageOperations ==
    BucketOperations
        \cup {"make_bucket", "bucket_exists", "list_buckets", "remove_bucket"}

\* C22: every storage operation of a handle whose endpoint is empty or
\* malformed fails with the error of the health check (ValueError) and
\* leaves the Store unchanged.
C22_HealthCheckFirst ==
    [][(/\ last'.op \in StorageOperations
        /\ last'.endpoint \in {EmptyEndpoint, MalformedEndpoint})
       => /\ last'.exc = "ValueError"
          /\ UNCHANGED <<buckets, clock, nuuid>>]_vars

\* what the reads of a handle return: list_buckets, bucket_exists and, per
\* bucket and object name, get_object, stat_object and list_objects
HandleReads(handle) ==
    LET bs == BucketsOf(handle)
        hc == health_check(clients[handle].base_url)
    IN [list_buckets |-> IF hc # "none" THEN {} ELSE DOMAIN bs,
        bucket_exists |-> [b \in BucketNames |-> hc = "none" /\ b \in DOMAIN bs],
        get_object |->
            [b \in BucketNames, k \in ObjectNames |->
                IF hc # "none" THEN [exc |-> hc, data |-> EmptyData]
                ELSE IF b \notin DOMAIN bs
                THEN [exc |-> "KeyError", data |-> EmptyData]
                ELSE MockMinioBucket_get_object(bs[b], k, NoVersionId)],
        stat_object |->
            [b \in BucketNames, k \in ObjectNames |->
                IF hc # "none" THEN [exc |-> hc, stat |-> NoStat]
                ELSE IF b \notin DOMAIN bs
                THEN [exc |-> "KeyError", stat |-> NoStat]
                ELSE MockMinioBucket_stat_object(bs[b], k, NoVersionId)],
        list_objects |->
            [b \in BucketNames |->
                IF b \notin DOMAIN bs
                THEN [entries |-> <<>>, exc |-> "NoSuchBucket"]
                ELSE MockMinioBucket_list_objects(bs[b], "", TRUE, "", TRUE)]]

\* C23: two handles connected to the same endpoint with no reset between
\* their connects hold the same Store, and every read through one returns
\* what the same read through the other returns, after every interleaving
\* of calls through either; a connect to an endpoint the registry does not
\* hold creates an empty Store, a connect to one it holds creates none.
C23_SharedStore ==
    [][/\ \A h1, h2 \in DOMAIN clients' :
            (/\ h1 # h2
             /\ clients'[h1].base_url = clients'[h2].base_url
             /\ clients'[h1].since = clients'[h2].since)
            => /\ clients'[h1].buckets = clients'[h2].buckets
               /\ HandleReads(h1)' = HandleReads(h2)'
       /\ last'.op = "Minio"
          => IF last'.endpoint \in DOMAIN servers
             THEN heap' = heap
             ELSE /\ Len(heap') = Len(heap) + 1
                  /\ heap'[Len(heap')] = <<>>]_vars

\* two handles of one endpoint hold a Store in which one of them has put an
\* object, after a reset and a new connect of both
C23_Witness ==
    /\ DOMAIN clients = Handles
    /\ clients["client_1"].base_url = clients["client_2"].base_url
    /\ clients["client_1"].buckets = clients["client_2"].buckets
    /\ clients["client_1"].since > 0
    /\ \E b \in DOMAIN BucketsOf("client_1") :
          BucketsOf("client_1")[b].objects # <<>>

\* the exceptions that are faults of the implementation
ImplementationFaults ==
    {"RuntimeError", "IndexError", "KeyError", "AttributeError", "Exception"}

\* C24: in the documented use of an existing bucket (versioning set to
\* Enabled or Suspended, remove_object with no version id, with "null" or
\* with a listed id) no call fails with an implementation fault.
C24_NoImplementationFault ==
    (last.bucket_name \in DOMAIN buckets) => last.exc \notin ImplementationFaults

ReadOperations == {"get_object", "stat_object"}

\* the version ids of the Versions of the object (none if it is absent)
StoredVersionIds(bucket, object_name) ==
    IF HasObject(bucket.objects, object_name)
    THEN {VersionsOf(bucket, object_name)[i].version_id :
            i \in DOMAIN VersionsOf(bucket, object_name)}
    ELSE {}

WellFormed(version_id) ==
    version_id = NullVersion \/ validators_uuid(version_id)

\* C25: in an existing bucket get_object and stat_object fail with NoSuchKey
\* when the object name is absent or the object has zero Versions (and the
\* version id, if given, is well formed), and with VersionNotFound when the
\* object has Versions and the explicit well-formed version id is not among
\* them; the Store is unchanged.
C25_NoSuchKeyAndVersionNotFound ==
    [][(/\ last'.op \in ReadOperations
        /\ last'.endpoint = ValidEndpoint
        /\ last'.bucket_name \in DOMAIN buckets)
       => LET bucket == buckets[last'.bucket_name]
              ids == StoredVersionIds(bucket, last'.object_name)
              absent == ~HasObject(bucket.objects, last'.object_name)
              explicit == last'.version_id # NoVersionId
          IN /\ (absent \/ (ids = {} /\ (explicit => WellFormed(last'.version_id))))
                => last'.exc = "NoSuchKey" /\ buckets' = buckets
             /\ (/\ ids # {}
                 /\ explicit
                 /\ WellFormed(last'.version_id)
                 /\ last'.version_id \notin ids)
                => last'.exc = "VersionNotFound" /\ buckets' = buckets]_vars

\* the part of C25 that leaves out reads of an object with zero Versions by
\* an explicit version id
C25_ExceptZeroVersionsById ==
    [][(/\ last'.op \in ReadOperations
        /\ last'.endpoint = ValidEndpoint
        /\ last'.bucket_name \in DOMAIN buckets)
       => LET bucket == buckets[last'.bucket_name]
              ids == StoredVersionIds(bucket, last'.object_name)
              absent == ~HasObject(bucket.objects, last'.object_name)
              explicit == last'.version_id # NoVersionId
          IN /\ (absent \/ (ids = {} /\ ~explicit))
                => last'.exc = "NoSuchKey" /\ buckets' = buckets
             /\ (/\ ids # {}
                 /\ explicit
                 /\ WellFormed(last'.version_id)
                 /\ last'.version_id \notin ids)
                => last'.exc = "VersionNotFound" /\ buckets' = buckets]_vars

\* the Version get_object returns for the arguments (the call succeeds)
ResolvedVersion(bucket_name, object_name, version_id) ==
    LET versions == VersionsOf(buckets[bucket_name], object_name)
    IN versions[MockMinioObject_get_object(
                    versions, version_id, buckets[bucket_name].versioning).idx]

\* C26: in every state and for every bucket, object name and version id,
\* stat_object succeeds exactly when get_object succeeds and fails with the
\* same error kind otherwise; when they succeed the Object of stat_object
\* describes the Version whose content get_object returns, with no version
\* id when that Version has the id "null", and it is never a delete marker;
\* the last read call returned what these operators give.
C26_StatMatchesGet ==
    /\ \A b \in BucketNames, k \in ObjectNames, v \in VersionIdInputs :
          LET g == GetObjectResult(ValidEndpoint, b, k, v)
              t == StatObjectResult(ValidEndpoint, b, k, v)
          IN /\ g.exc = t.exc
             /\ g.exc = "none"
                => LET r == ResolvedVersion(b, k, v)
                   IN /\ g.data = r.data
                      /\ t.stat.last_modified = r.last_modified
                      /\ t.stat.version_id
                           = IF r.version_id = NullVersion THEN NoVersionId
                             ELSE r.version_id
                      /\ t.stat.is_latest = "true" <=> r.is_latest
                      /\ ~r.is_delete_marker
                      /\ ~t.stat.is_delete_marker
                      /\ t.stat.version_id # NullVersion
             /\ g.exc # "none" => t.stat = NoStat
    /\ last.op = "get_object"
       => LET t == StatObjectResult(last.endpoint, last.bucket_name,
                                    last.object_name, last.version_id)
          IN last.exc = t.exc
    /\ last.op = "stat_object"
       => LET g == GetObjectResult(last.endpoint, last.bucket_name,
                                   last.object_name, last.version_id)
          IN /\ last.exc = g.exc
             /\ last.stat.version_id # NullVersion
             /\ ~last.stat.is_delete_marker

\* stat_object without version id returned the Object of the "null" Version
\* of an object that also has a Version with a UUID and a delete marker
C26_Witness ==
    /\ last.op = "stat_object"
    /\ last.exc = "none"
    /\ last.version_id = NullVersion
    /\ last.stat.version_id = NoVersionId
    /\ last.stat.is_latest = "false"
    /\ \E i \in DOMAIN VersionsOf(buckets[last.bucket_name], last.object_name) :
          VersionsOf(buckets[last.bucket_name], last.object_name)[i].is_delete_marker

\* the Versions stored under the object name in the bucket (none if absent)
VersionSet(bucket, object_name) ==
    IF HasObject(bucket.objects, object_name)
    THEN {VersionsOf(bucket, object_name)[i] :
            i \in DOMAIN VersionsOf(bucket, object_name)}
    ELSE {}

\* C27: every Version stored after a step either was created by the step or
\* was stored before it under the same object with the same version id,
\* content and creation timestamp; its delete-marker flag differs from the
\* one it had only when the step is a remove_object without version id in a
\* Suspended bucket.
C27_VersionsImmutable ==
    [][\A b \in DOMAIN buckets' :
         \A i \in DOMAIN buckets'[b].objects :
           \A w \in VersionSet(buckets'[b], buckets'[b].objects[i].object_name) :
              \/ /\ clock' = clock + 1
                 /\ w.last_modified = clock'
              \/ /\ b \in DOMAIN buckets
                 /\ \E v \in VersionSet(buckets[b],
                                            buckets'[b].objects[i].object_name) :
                       /\ v.version_id = w.version_id
                       /\ v.data = w.data
                       /\ v.last_modified = w.last_modified
                       /\ v.is_delete_marker # w.is_delete_marker
                          => /\ last'.op = "remove_object"
                             /\ last'.version_id = NoVersionId
                             /\ last'.bucket_name = b
                             /\ buckets[b].versioning = Suspended]_vars

\* a Suspended-mode remove_object without version id has set the
\* delete-marker flag of a Version that keeps its content, next to another
\* Version
C27_Witness ==
    /\ last.op = "remove_object"
    /\ last.exc = "none"
    /\ last.version_id = NoVersionId
    /\ last.bucket_name \in DOMAIN buckets
    /\ buckets[last.bucket_name].versioning = Suspended
    /\ \E v, w \in VersionSet(buckets[last.bucket_name], last.object_name) :
          /\ v.is_delete_marker
          /\ v.data # EmptyData
          /\ v.is_latest
          /\ w.last_modified # v.last_modified

\* list_objects(bucket_name, recursive=True, include_version=True) on the
\* bucket
VersionListing(bucket) ==
    MockMinioBucket_list_objects(bucket, "", TRUE, "", TRUE).entries

\* the entry is older than every other entry of the listing
Oldest(listing, entry) ==
    \A i \in DOMAIN listing :
       listing[i] = entry \/ listing[i].last_modified > entry.last_modified

\* C28: a set_bucket_versioning step changes nothing but the versioning of
\* the bucket named (and nothing when it fails): the buckets, their objects
\* and every Version with its id, content and flags are as before, and so is
\* the listing of the versions; a put_object in Off mode leaves one Version,
\* with the id "null"; and when the Version listed last in a bucket has the
\* id "null" and is the oldest, a put_object in Enabled mode leaves that
\* Version listed last, with the same id, timestamp and delete-marker flag,
\* and the oldest.
C28_SetVersioningFrame ==
    [][/\ last'.op = "set_bucket_versioning"
          => /\ DOMAIN buckets' = DOMAIN buckets
             /\ clock' = clock
             /\ nuuid' = nuuid
             /\ \A b \in DOMAIN buckets :
                  /\ buckets'[b].objects = buckets[b].objects
                  /\ VersionListing(buckets'[b]) = VersionListing(buckets[b])
                  /\ buckets'[b].versioning
                       = IF b = last'.bucket_name /\ last'.exc = "none"
                         THEN last'.data
                         ELSE buckets[b].versioning
       /\ (/\ last'.op = "put_object"
           /\ last'.exc = "none"
           /\ buckets[last'.bucket_name].versioning = Off)
          => LET after == VersionListing(buckets'[last'.bucket_name])
             IN /\ Len(after) = 1
                /\ after[1].version_id = NullVersion
                /\ ~after[1].is_delete_marker
       /\ (/\ last'.op = "put_object"
           /\ last'.exc = "none"
           /\ buckets[last'.bucket_name].versioning = Enabled
           /\ VersionListing(buckets[last'.bucket_name]) # <<>>)
          => LET before == VersionListing(buckets[last'.bucket_name])
                 after == VersionListing(buckets'[last'.bucket_name])
                 old == before[Len(before)]
             IN (old.version_id = NullVersion /\ Oldest(before, old))
                => /\ Len(after) = Len(before) + 1
                   /\ after[Len(after)].version_id = NullVersion
                   /\ after[Len(after)].object_name = old.object_name
                   /\ after[Len(after)].last_modified = old.last_modified
                   /\ after[Len(after)].is_delete_marker = old.is_delete_marker
                   /\ Oldest(after, after[Len(after)])]_vars

\* versioning has been set to Suspended on a bucket whose object was put
\* under Off and twice under Enabled: the "null" Version is listed last
C28_Witness ==
    /\ last.op = "set_bucket_versioning"
    /\ last.exc = "none"
    /\ last.data = Suspended
    /\ LET listing == VersionListing(buckets[last.bucket_name])
       IN /\ Len(listing) = 3
          /\ listing[3].version_id = NullVersion
          /\ ~listing[3].is_delete_marker
          /\ validators_uuid(listing[1].version_id)
          /\ validators_uuid(listing[2].version_id)
          /\ ~listing[1].is_delete_marker
          /\ ~listing[2].is_delete_marker
          /\ Oldest(listing, listing[3])

\* C29: get_object and stat_object on an existing bucket with a version id
\* that is non-empty, not "null" and not UUID-shaped fail with
\* InvalidVersion, whether or not the object exists.
C29_InvalidVersionFirst ==
    (/\ last.op \in ReadOperations
     /\ last.endpoint = ValidEndpoint
     /\ last.bucket_name \in DOMAIN buckets
     /\ last.version_id # NoVersionId
     /\ ~WellFormed(last.version_id))
    => last.exc = "InvalidVersion"

\* the part of C29 about the objects that exist in the bucket
C29_InvalidVersionOfStoredObject ==
    (/\ last.op \in ReadOperations
     /\ last.endpoint = ValidEndpoint
     /\ last.bucket_name \in DOMAIN buckets
     /\ HasObject(buckets[last.bucket_name].objects, last.object_name)
     /\ last.version_id # NoVersionId
     /\ ~WellFormed(last.version_id))
    => last.exc = "InvalidVersion"

\* the indices of the Versions flagged latest
LatestFlagged(versions) == {i \in DOMAIN versions : versions[i].is_latest}

\* get_object and stat_object without version id give what the Version
\* versions[i] gives: MethodNotAllowed if it is a delete marker, else its
\* content and its Object
ReadsGive(bucket_name, object_name, versions, i) ==
    LET g == GetObjectResult(ValidEndpoint, bucket_name, object_name, NoVersionId)
        t == StatObjectResult(ValidEndpoint, bucket_name, object_name, NoVersionId)
    IN IF versions[i].is_delete_marker
       THEN g.exc = "MethodNotAllowed" /\ t.exc = "MethodNotAllowed"
       ELSE /\ g.exc = "none"
            /\ g.data = versions[i].data
            /\ t.exc = "none"
            /\ t.stat.last_modified = versions[i].last_modified

\* C30: for every object with Versions, get_object and stat_object without
\* version id resolve to the Version flagged latest, in every mode; in mode
\* Off the Version flagged latest has the id "null", and reading by "null"
\* gives what reading without version id gives.
C30_ReadResolvesLatest ==
    \A b \in DOMAIN buckets, k \in ObjectNames :
       (HasObject(buckets[b].objects, k) /\ VersionsOf(buckets[b], k) # <<>>)
       => LET versions == VersionsOf(buckets[b], k)
          IN /\ \A i \in LatestFlagged(versions) : ReadsGive(b, k, versions, i)
             /\ buckets[b].versioning = Off
                => /\ \A i \in LatestFlagged(versions) :
                        versions[i].version_id = NullVersion
                   /\ LatestFlagged(versions) # {}
                   /\ GetObjectResult(ValidEndpoint, b, k, NullVersion)
                        = GetObjectResult(ValidEndpoint, b, k, NoVersionId)
                   /\ StatObjectResult(ValidEndpoint, b, k, NullVersion)
                        = StatObjectResult(ValidEndpoint, b, k, NoVersionId)

\* the object names of the entries
EntryNames(entries) == {entries[i].object_name : i \in DOMAIN entries}

\* C31: the object names a consumed list_objects generator yields are those
\* the listing gives over the objects the bucket held when list_objects was
\* called.
C31_ListingSnapshotAtCall ==
    [][last'.op = "list_objects_consume"
       => EntryNames(last'.entries)
            = EntryNames(MockMinioBucket_list_objects(
                  [buckets[pending.bucket_name] EXCEPT !.objects = pending.at_call],
                  pending.list_args.prefix, pending.list_args.recursive,
                  pending.list_args.start_after,
                  pending.list_args.include_version).entries)]_vars

\* C32: a remove_object call on a bucket in mode Off, with no version id or
\* with the version id "null", that leaves the object without Versions also
\* removes the object from the bucket.
C32_OffRemoveDropsEmptyObject ==
    [][(/\ last'.op = "remove_object"
        /\ last'.version_id \in {NoVersionId, NullVersion}
        /\ last'.bucket_name \in DOMAIN buckets
        /\ buckets[last'.bucket_name].versioning = Off
        /\ StoredVersions(buckets, last'.bucket_name, last'.object_name) # <<>>)
       => \/ ~HasObject(buckets'[last'.bucket_name].objects, last'.object_name)
          \/ StoredVersions(buckets', last'.bucket_name, last'.object_name) # <<>>]_vars

\* C33: a client call that ends with an exception leaves the Store as it was.
C33_FailedCallChangesNothing ==
    [][last'.exc # "none" => buckets' = buckets]_vars

\* the part of C33 about the calls other than remove_object
C33_ExceptRemoveObject ==
    [][(last'.exc # "none" /\ last'.op # "remove_object")
       => buckets' = buckets]_vars

ReadCalls ==
    {"get_object", "stat_object", "list_objects", "list_buckets",
     "bucket_exists", "get_bucket_versioning"}

\* the step makes the call that last records once more
RepeatsLastCall ==
    /\ last'.op = last.op
    /\ last'.endpoint = last.endpoint
    /\ last'.bucket_name = last.bucket_name
    /\ last'.object_name = last.object_name
    /\ last'.version_id = last.version_id
    /\ last'.list_args = last.list_args

\* C34: get_object, stat_object, list_objects (consumed to its end),
\* list_buckets, bucket_exists and get_bucket_versioning leave the buckets,
\* the clock and the version ids issued as they were, whether they return
\* or raise; and a read that repeats the call made just before it has the
\* same outcome.
C34_ReadsChangeNothing ==
    [][last'.op \in ReadCalls
       => /\ buckets' = buckets
          /\ clock' = clock
          /\ nuuid' = nuuid
          /\ RepeatsLastCall => last' = last]_vars

\* get_object has returned the content of an object that has two Versions
C34_Witness ==
    /\ last.op = "get_object"
    /\ last.exc = "none"
    /\ last.ret # EmptyData
    /\ Len(StoredVersions(buckets, last.bucket_name, last.object_name)) = 2

ObjectNamesOf(bucket) ==
    {bucket.objects[i].object_name : i \in DOMAIN bucket.objects}

\* C36: a remove_object call on a bucket in mode Enabled or Suspended, with
\* or without version id, returning or raising, leaves the object names of
\* the bucket as they were; and remove_bucket on a bucket that holds an
\* object name fails with BucketNotEmpty and leaves the bucket.
C36_VersionedRemoveKeepsNames ==
    [][/\ (/\ last'.op = "remove_object"
           /\ last'.bucket_name \in DOMAIN buckets
           /\ buckets[last'.bucket_name].versioning \in {Enabled, Suspended})
          => /\ last'.bucket_name \in DOMAIN buckets'
             /\ ObjectNamesOf(buckets'[last'.bucket_name])
                  = ObjectNamesOf(buckets[last'.bucket_name])
       /\ (/\ last'.op = "remove_bucket"
           /\ last'.bucket_name \in DOMAIN buckets
           /\ ObjectNamesOf(buckets[last'.bucket_name]) # {})
          => /\ last'.exc = "BucketNotEmpty"
             /\ buckets' = buckets]_vars

\* remove_bucket has failed with BucketNotEmpty on a versioned bucket whose
\* only object has lost every Version through remove_object
C36_Witness ==
    /\ last.op = "remove_bucket"
    /\ last.exc = "BucketNotEmpty"
    /\ buckets[last.bucket_name].versioning \in {Enabled, Suspended}
    /\ \A k \in ObjectNamesOf(buckets[last.bucket_name]) :
          StoredVersions(buckets, last.bucket_name, k) = <<>>

\* the Versions of the sequence that no other Version of it is newer than
Newest(versions) ==
    {i \in DOMAIN versions :
        \A j \in DOMAIN versions :
            versions[j].last_modified <= versions[i].last_modified}

\* C37: when remove_object is given the version id of the Version flagged
\* latest in mode Enabled or Suspended, and returns with other Versions
\* remaining, the Version flagged latest afterwards is the remaining Version
\* with the newest creation timestamp.
C37_NewestPromoted ==
    [][(/\ last'.op = "remove_object"
        /\ last'.exc = "none"
        /\ last'.bucket_name \in DOMAIN buckets
        /\ buckets[last'.bucket_name].versioning \in {Enabled, Suspended}
        /\ LatestFlagged(StoredVersions(buckets, last'.bucket_name,
                                        last'.object_name)) # {}
        /\ \A i \in LatestFlagged(StoredVersions(buckets, last'.bucket_name,
                                                 last'.object_name)) :
              StoredVersions(buckets, last'.bucket_name,
                             last'.object_name)[i].version_id
                 = last'.version_id
        /\ StoredVersions(buckets', last'.bucket_name,
                          last'.object_name) # <<>>)
       => LatestFlagged(StoredVersions(buckets', last'.bucket_name,
                                       last'.object_name))
            \subseteq Newest(StoredVersions(buckets', last'.bucket_name,
                                           last'.object_name))]_vars

\* C37, in the two-Version case of the test: the one remaining Version is
\* the one flagged latest
C37_OneRemainingPromoted ==
    [][(/\ last'.op = "remove_object"
        /\ last'.exc = "none"
        /\ last'.bucket_name \in DOMAIN buckets
        /\ buckets[last'.bucket_name].versioning \in {Enabled, Suspended}
        /\ last'.version_id \in
              {StoredVersions(buckets, last'.bucket_name,
                              last'.object_name)[i].version_id :
                 i \in LatestFlagged(StoredVersions(buckets,
                          last'.bucket_name, last'.object_name))}
        /\ Len(StoredVersions(buckets', last'.bucket_name,
                              last'.object_name)) = 1)
       => LatestFlagged(StoredVersions(buckets', last'.bucket_name,
                                       last'.object_name)) = {1}]_vars

\* get_object(bucket_name, object_name, version_id) returns the content
Readable(bucket_name, object_name, version_id, data) ==
    /\ GetObjectResult(ValidEndpoint, bucket_name, object_name,
                       version_id).exc = "none"
    /\ GetObjectResult(ValidEndpoint, bucket_name, object_name,
                       version_id).data = data

\* the step is a put_object, remove_object or set_bucket_versioning call on
\* the bucket that does not pass the version id to remove_object
KeepsVersion(bucket_name, version_id) ==
    /\ last'.op \in {"put_object", "remove_object", "set_bucket_versioning"}
    /\ last'.bucket_name = bucket_name
    /\ ~(last'.op = "remove_object" /\ last'.version_id = version_id)

CallsThrough(handle) ==
    \/ \E b \in BucketNames : client_make_bucket(handle, b)
    \/ \E b \in BucketNames : client_remove_bucket(handle, b)
    \/ \E b \in BucketNames, k \in ObjectNames, d \in RegistryContents :
          client_put_object(handle, b, k, d)
    \/ client_list_buckets(handle)

\* the two handles name one endpoint and a reset lies between their connects
AcrossReset(h1, h2) ==
    /\ h1 \in DOMAIN clients
    /\ h2 \in DOMAIN clients
    /\ clients[h1].base_url = clients[h2].base_url
    /\ clients[h1].since # clients[h2].since

\* C39: a reset changes no Store and no handle; the first connect to an
\* endpoint after a reset creates a new, empty Store for the connecting
\* handle and leaves every Store and every other handle as they were; and
\* of two handles of one endpoint connected on either side of a reset, each
\* holds a Store of its own, a call through one leaves the Store of the
\* other unchanged, and list_buckets through one returns the buckets of its
\* own Store.
C39_ResetSeparatesHandles ==
    [][/\ last'.op = "reset" => (heap' = heap /\ clients' = clients)
       /\ (/\ last'.op = "Minio"
           /\ resets > 0
           /\ last'.endpoint \notin DOMAIN servers)
          => /\ Len(heap') = Len(heap) + 1
             /\ heap'[Len(heap')] = <<>>
             /\ \A a \in DOMAIN heap : heap'[a] = heap[a]
             /\ \E h \in DOMAIN clients' :
                   /\ clients'[h].buckets = Len(heap')
                   /\ \A g \in DOMAIN clients \ {h} : clients'[g] = clients[g]
       /\ \A h1, h2 \in Handles :
            AcrossReset(h1, h2)
            => /\ clients[h1].buckets # clients[h2].buckets
               /\ CallsThrough(h1)
                  => /\ BucketsOf(h2)' = BucketsOf(h2)
                     /\ clients' = clients
                     /\ last'.op = "list_buckets"
                        => last'.names = DOMAIN BucketsOf(h1)]_vars

\* a handle connected before a reset and a handle connected after it name
\* one endpoint; each has made a bucket of the same name in its Store, and
\* the object put through the first is not in the bucket of the second
C39_Witness ==
    /\ last.op = "put_object"
    /\ last.exc = "none"
    /\ resets > 0
    /\ AcrossReset("client_1", "client_2")
    /\ clients["client_1"].since = 0
    /\ \E b \in DOMAIN BucketsOf("client_1") :
          /\ BucketsOf("client_1")[b].objects # <<>>
          /\ b \in DOMAIN BucketsOf("client_2")
          /\ BucketsOf("client_2")[b].objects = <<>>

====
